---- MODULE Spec2Model ----
(***************************************************************************)
(* Connection broker of the DB & Services extension: the connection        *)
(* registry (ConnectionManager), the secret store boundary (SecretManager),*)
(* the provider registry and provider session maps, the connection         *)
(* explorer's add / edit / import commands and the SSH tunnel manager.     *)
(*                                                                         *)
(* Every async method is cut at its awaits: the synchronous code between   *)
(* two awaits is one atomic step, an awaited external operation takes      *)
(* effect in the step that resumes the method.                             *)
(***************************************************************************)
EXTENDS Integers, FiniteSets, Sequences, TLC

VARIABLES
    connections,        \* ConnectionManager.connections : id -> config
    connectionStatus,   \* ConnectionManager.connectionStatus : id -> status
    secrets,            \* vscode.SecretStorage behind SecretManager : id -> stored text
    workspaceState,     \* workspaceState 'connections' : the persisted configs
    ioFaults,           \* secret-store and workspace-state operations that were rejected
    edits,              \* add, edit and import commands issued so far
    providers,          \* ConnectionManager.providers : type -> cached instance
    created,            \* number of provider instances constructed per type
    provConnections,    \* BaseConnectionProvider.connections of every instance
    nextHandle,         \* native sessions opened so far
    call,               \* the async calls in flight, one record per call slot
    overlap,            \* whether commands are issued while another one is in flight
    lastDone,           \* the call that returned last (kept when calls do not overlap)
    run,                \* the script run of the explorer
    parse,              \* the argument string parseMongoArguments was given, and its result
    file,               \* the file exportConnections wrote, and what it was written from
    validated,          \* the config validateConnectionConfig was given last, and whether it passed
    groups,             \* ConnectionManager.groups : group id -> group
    metadata,           \* ConnectionManager.metadata : id -> favorite flag and group id
    nextGroup,          \* number of groups created so far
    history,            \* workspaceState 'queryHistory' : the stored entries, newest first
    nextEntry,          \* number of history entries made so far
    removals,           \* deleteQuery and clearHistory commands issued so far
    activeTunnels,      \* TunnelManager.activeTunnels : id -> tunnel
    tunnels,            \* the (ssh2 client, net server) pairs createTunnel has made
    nextTunnel,         \* number of pairs made so far
    tcall,              \* createTunnel / closeTunnel calls in flight
    tlast,              \* the createTunnel / closeTunnel call that returned last
    sockets,            \* local connections the tunnel servers have accepted
    nextSocket          \* number of local connections accepted so far

regVars  == <<connections, connectionStatus, secrets, workspaceState, ioFaults>>
provVars == <<providers, created, provConnections, nextHandle>>
groupVars == <<groups, metadata, nextGroup>>
histVars == <<history, nextEntry, removals>>
sideVars == <<run, parse, file, validated, groupVars, histVars>>
callVars == <<call, overlap, lastDone, sideVars>>
tunVars  == <<activeTunnels, tunnels, nextTunnel, tcall, tlast, sockets, nextSocket>>
otherVars == <<edits, activeTunnels, tunnels, nextTunnel, tcall, tlast, sockets, nextSocket>>
vars     == <<connections, connectionStatus, secrets, workspaceState, ioFaults, edits,
              providers, created, provConnections, nextHandle,
              call, overlap, lastDone, run, parse, file, validated,
              groups, metadata, nextGroup, history, nextEntry, removals,
              activeTunnels, tunnels, nextTunnel, tcall, tlast, sockets, nextSocket>>

----------------------------------------------------------------------------
(* Bounds *)

\* groups created in one behaviour
MaxGroups == 2

\* history entries made, and entries removed or lists cleared, in one behaviour
MaxEntries == 102

MaxRemovals == 1

Ids   == {"a", "b"}
Calls == {1, 2}
Names == {"n1", "n2"}
Types == {"postgresql", "sqlite"}

MaxSess == 1
\* native sessions a behaviour opens at most

MaxSeqSess == 2
\* native sessions a behaviour of calls made one after the other opens at most

MaxFaults == 1
\* secret-store / workspace-state operations a behaviour sees rejected at most

MaxEdits == 2
\* add, edit and import commands a behaviour issues at most

MaxTunnels == 2
\* (client, server) pairs a behaviour creates at most

MaxPort == 2
\* local ports the system hands out: 1 .. MaxPort

MaxSockets == 2
\* local connections accepted by the tunnel servers in a run

Insts == 1 .. Cardinality(Calls)
\* provider instances of one type: at most one per overlapping getProvider

----------------------------------------------------------------------------
(* Data *)

SecretFields == {"password", "privateKey"}

NoConfig == [name |-> "none", type |-> "none", fields |-> {}]

Registered(id) == connections[id] # NoConfig

NoStatus == [entry |-> FALSE, connected |-> FALSE, error |-> "none", lastConnected |-> FALSE]

StatusConnected == [entry |-> TRUE, connected |-> TRUE, error |-> "none", lastConnected |-> TRUE]

StatusDisconnected == [entry |-> TRUE, connected |-> FALSE, error |-> "none", lastConnected |-> FALSE]

StatusFailed(msg) == [entry |-> TRUE, connected |-> FALSE, error |-> msg, lastConnected |-> FALSE]

isConnected(id) == connectionStatus[id].connected

\* SecretManager.getCredentials: absent text or text that does not parse is null
getCredentialsNoCatch(text) == IF text = "absent" THEN "null" ELSE text

getCredentials(text) == IF text \in {"absent", "corrupt"} THEN "null" ELSE text

\* SecretManager.hasCredentials
hasCredentials(text) == getCredentials(text) # "null"

NoSnap == [i \in Ids |-> NoConfig]

IdleCall == [pc |-> "idle", op |-> "none", outer |-> "none", id |-> "none", type |-> "none",
             inst |-> 0, hnd |-> 0, wasConn |-> FALSE, invoked |-> FALSE,
             snap |-> NoSnap, cfg |-> NoConfig, creds |-> "undefined", newId |-> "none",
             exists |-> "none"]

NoRet == [op |-> "none", id |-> "none", outcome |-> "none", invoked |-> FALSE]

Idle(c) == call[c].pc = "idle"

InFlight == {c \in Calls : ~Idle(c)}

\* a command may start in slot c: the lowest free slot, and no other call in
\* flight unless commands overlap
MayStart(c) ==
    /\ Idle(c)
    /\ \A d \in Calls : d < c => ~Idle(d)
    /\ overlap \/ InFlight = {}

\* the slot the next command starts in, if one may start
FreeSlots == {c \in Calls : MayStart(c)}

\* lastDone keeps the connect, disconnect, add, update, testConnection or execute call
\* that returned last, as long as no other command came after it
Done(op, id, outcome, invoked) ==
    IF overlap THEN lastDone
    ELSE IF op \in {"connect", "disconnect", "add", "update", "test", "execute"}
         THEN [op |-> op, id |-> id, outcome |-> outcome, invoked |-> invoked]
         ELSE NoRet

\* a call that throws or returns: the slot is free again. Inside
\* importConnections the deleteConnection of the colliding connection returns
\* into the import, which goes on to add the record; a throw ends the record
\* (the import's catch collects the message)
Return(c, outcome) ==
    IF call[c].outer = "import" /\ call[c].op = "delete" /\ outcome = "ok"
    THEN /\ call' = [call EXCEPT ![c] = [call[c] EXCEPT !.pc = "importAdd", !.op = "add",
                                                         !.id = call[c].newId]]
         /\ UNCHANGED <<overlap, lastDone, sideVars>>
    ELSE /\ call' = [call EXCEPT ![c] = IdleCall]
         /\ lastDone' = Done(IF call[c].outer = "import" THEN "import" ELSE call[c].op,
                             call[c].id, outcome, call[c].invoked)
         /\ UNCHANGED <<overlap, sideVars>>

\* a call that throws in its first synchronous segment
ReturnAtOnce(c, op, id, outcome) ==
    /\ lastDone' = Done(op, id, outcome, FALSE)
    /\ UNCHANGED <<call, overlap, sideVars>>

Goto(c, rec) ==
    /\ call' = [call EXCEPT ![c] = rec]
    /\ UNCHANGED <<overlap, lastDone, sideVars>>

Start(c, rec) == Goto(c, rec)

----------------------------------------------------------------------------
(* ConnectionManager.getProvider *)

\* first segment: the cached instance, or the dynamic import is started
getProviderStartNoRetry(rec) ==
    [rec EXCEPT !.pc = "gotProvider", !.inst = providers[rec.type]]

getProviderStart(rec) ==
    IF providers[rec.type] # 0
    THEN [rec EXCEPT !.pc = "gotProvider", !.inst = providers[rec.type]]
    ELSE [rec EXCEPT !.pc = "import"]

\* the dynamic import settles: a new instance is constructed and cached, or
\* the import throws and getProvider returns null (nothing is cached)
ImportDone(c) ==
    /\ call[c].pc = "import"
    /\ \E ok \in BOOLEAN :
         IF ok
         THEN LET n == created[call[c].type] + 1 IN
              /\ created' = [created EXCEPT ![call[c].type] = n]
              /\ providers' = [providers EXCEPT ![call[c].type] = n]
              /\ Goto(c, [call[c] EXCEPT !.pc = "gotProvider", !.inst = n])
         ELSE /\ Goto(c, [call[c] EXCEPT !.pc = "gotProvider", !.inst = 0])
              /\ UNCHANGED <<created, providers>>
    /\ UNCHANGED <<regVars, provConnections, nextHandle, otherVars>>

----------------------------------------------------------------------------
(* ConnectionManager.connect *)

ConnectCall(c, id) ==
    /\ MayStart(c)
    /\ IF connections[id] = NoConfig
       THEN ReturnAtOnce(c, "connect", id, "NotFound")
       ELSE /\ call' = [call EXCEPT ![c] = getProviderStart(
                          [IdleCall EXCEPT !.op = "connect", !.id = id,
                                           !.type = connections[id].type])]
            /\ UNCHANGED <<overlap, lastDone, sideVars>>
    /\ UNCHANGED <<regVars, provVars, otherVars>>

ConnectGotProvider(c) ==
    /\ call[c].pc = "gotProvider"
    /\ call[c].op = "connect"
    /\ IF call[c].inst = 0
       THEN Return(c, "ProviderUnavailable")
       ELSE Goto(c, [call[c] EXCEPT !.pc = "getCredentials"])
    /\ UNCHANGED <<regVars, provVars, otherVars>>

GetCredentialsDone(c) ==
    /\ call[c].pc = "getCredentials"
    /\ IF getCredentials(secrets[call[c].id]) = "null"
       THEN /\ connectionStatus' = [connectionStatus EXCEPT
                                        ![call[c].id] = StatusFailed("NoCredentials")]
            /\ Return(c, "NoCredentials")
       ELSE /\ Goto(c, [call[c] EXCEPT !.pc = "providerConnect", !.invoked = TRUE])
            /\ UNCHANGED connectionStatus
    /\ UNCHANGED <<ioFaults, connections, secrets, workspaceState, provVars, otherVars>>

\* PostgreSQLProvider.connect / SQLiteProvider.connect: the session is stored
\* under config.id only after the native connect succeeded
providerConnectClearOnFailure(m, id, ok, h) ==
    IF ok THEN [m EXCEPT ![id] = h] ELSE [i \in Ids |-> 0]

providerConnect(m, id, ok, h) == IF ok THEN [m EXCEPT ![id] = h] ELSE m

ProviderConnectDone(c) ==
    /\ call[c].pc = "providerConnect"
    /\ \E ok \in BOOLEAN :
         LET id == call[c].id
             t == call[c].type
             n == call[c].inst
             h == nextHandle + 1 IN
         /\ ok => nextHandle < (IF overlap THEN MaxSess ELSE MaxSeqSess)
         /\ provConnections' = [provConnections EXCEPT
                                   ![t][n] = providerConnect(@, id, ok, h)]
         /\ nextHandle' = IF ok THEN h ELSE nextHandle
         /\ connectionStatus' = [connectionStatus EXCEPT
                                   ![id] = IF ok THEN StatusConnected
                                                 ELSE StatusFailed("ConnectError")]
         /\ Return(c, IF ok THEN "ok" ELSE "ConnectError")
    /\ UNCHANGED <<ioFaults, connections, secrets, workspaceState, providers, created, otherVars>>

----------------------------------------------------------------------------
(* executeQuery on the provider of a connection *)

\* getProviderForConnection(id), then provider.executeQuery(id, query)
ExecuteQueryCall(c, id) ==
    /\ MayStart(c)
    /\ Registered(id)
    /\ call' = [call EXCEPT ![c] = getProviderStart(
                   [IdleCall EXCEPT !.op = "execute", !.id = id,
                                    !.type = connections[id].type])]
    /\ UNCHANGED <<overlap, lastDone, sideVars>>
    /\ UNCHANGED <<regVars, provVars, otherVars>>

\* executeQuery looks the session up and throws when there is none
ExecuteGotProvider(c) ==
    /\ call[c].pc = "gotProvider"
    /\ call[c].op = "execute"
    /\ IF call[c].inst = 0
       THEN Return(c, "ProviderUnavailable")
       ELSE IF provConnections[call[c].type][call[c].inst][call[c].id] = 0
       THEN Return(c, "NoActiveConnection")
       ELSE Goto(c, [call[c] EXCEPT !.pc = "query", !.invoked = TRUE])
    /\ UNCHANGED <<regVars, provVars, otherVars>>

\* client.query settles: the rows are returned or the error is thrown
QueryDone(c) ==
    /\ call[c].pc = "query"
    /\ \E ok \in BOOLEAN : Return(c, IF ok THEN "ok" ELSE "QueryError")
    /\ UNCHANGED <<regVars, provVars, otherVars>>

----------------------------------------------------------------------------
(* IConnectionProvider.testConnection on a provider instance *)

\* the session map after a test: the test client is a local of the method,
\* connected and ended (or failed), never stored
testConnectionRegister(m, id, ok, h) == IF ok THEN [m EXCEPT ![id] = h] ELSE m

testConnection(m, id, ok, h) == m

\* testConnection(config, credentials) on the cached provider of the
\* config's type: the test client starts to connect
TestConnectionCall(c, id) ==
    /\ MayStart(c)
    /\ Registered(id)
    /\ providers[connections[id].type] # 0
    /\ Start(c, [IdleCall EXCEPT !.pc = "testConnect", !.op = "test", !.id = id,
                                 !.type = connections[id].type,
                                 !.inst = providers[connections[id].type]])
    /\ UNCHANGED <<regVars, provVars, otherVars>>

\* the test client connected and was ended (true), or failed (false)
TestConnectionDone(c) ==
    /\ call[c].pc = "testConnect"
    /\ \E ok \in BOOLEAN :
         /\ provConnections' = [provConnections EXCEPT ![call[c].type][call[c].inst] =
                                   testConnection(@, call[c].id, ok, nextHandle + 1)]
         /\ Return(c, IF ok THEN "true" ELSE "false")
    /\ UNCHANGED <<regVars, providers, created, nextHandle, otherVars>>

----------------------------------------------------------------------------
(* ConnectionManager.disconnect, also as the first part of deleteConnection *)

DisconnectCall(c, id) ==
    /\ MayStart(c)
    /\ IF connections[id] = NoConfig
       THEN ReturnAtOnce(c, "disconnect", id, "NotFound")
       ELSE /\ call' = [call EXCEPT ![c] = getProviderStart(
                          [IdleCall EXCEPT !.op = "disconnect", !.id = id,
                                           !.type = connections[id].type])]
            /\ UNCHANGED <<overlap, lastDone, sideVars>>
    /\ UNCHANGED <<regVars, provVars, otherVars>>

\* this.connectionStatus.set(id, {id, connected: false}) and the return of
\* disconnect; a deleteConnection that awaited it resumes in a later step
setDisconnected(c) ==
    /\ connectionStatus' = [connectionStatus EXCEPT ![call[c].id] = StatusDisconnected]
    /\ IF call[c].op = "delete"
       THEN Goto(c, [call[c] EXCEPT !.pc = "deleteRemove"])
       ELSE Return(c, "ok")

\* if (provider && this.isConnected(id)) await provider.disconnect(id);
\* the provider reads its session map when it is called. Without a provider
\* or a connected status the status is set in the same segment
DisconnectGotProvider(c) ==
    /\ call[c].pc = "gotProvider"
    /\ call[c].op \in {"disconnect", "delete"}
    /\ IF call[c].inst # 0 /\ isConnected(call[c].id)
       THEN /\ Goto(c, [call[c] EXCEPT !.pc = "providerDisconnect", !.invoked = TRUE,
                           !.hnd = provConnections[call[c].type][call[c].inst][call[c].id]])
            /\ UNCHANGED connectionStatus
       ELSE setDisconnected(c)
    /\ UNCHANGED <<ioFaults, connections, secrets, workspaceState, provVars, otherVars>>

\* PostgreSQLProvider.disconnect / SQLiteProvider.disconnect: no session is a
\* no-op; a native close that fails rejects and leaves the map as it is
providerDisconnectKeepEntry(m, id, h, ok) == m

providerDisconnect(m, id, h, ok) == IF h # 0 /\ ok THEN [m EXCEPT ![id] = 0] ELSE m

ProviderDisconnectDone(c) ==
    /\ call[c].pc = "providerDisconnect"
    /\ \E ok \in BOOLEAN :
         /\ (call[c].hnd = 0) => ok
         /\ provConnections' = [provConnections EXCEPT ![call[c].type][call[c].inst] =
                                   providerDisconnect(@, call[c].id, call[c].hnd, ok)]
         /\ IF ok
            THEN Goto(c, [call[c] EXCEPT !.pc = "setDisconnected"])
            ELSE Return(c, "DisconnectError")
    /\ UNCHANGED <<regVars, providers, created, nextHandle, otherVars>>

\* disconnect resumes after the provider's disconnect resolved
SetDisconnected(c) ==
    /\ call[c].pc = "setDisconnected"
    /\ setDisconnected(c)
    /\ UNCHANGED <<ioFaults, connections, secrets, workspaceState, provVars, otherVars>>

----------------------------------------------------------------------------
(* ConnectionManager.deleteConnection *)

\* this.connections.delete(id); this.connectionStatus.delete(id);
\* then deleteCredentials is called
deleteRemove(c, rec) ==
    /\ connections' = [connections EXCEPT ![rec.id] = NoConfig]
    /\ connectionStatus' = [connectionStatus EXCEPT ![rec.id] = NoStatus]
    /\ Goto(c, [rec EXCEPT !.pc = "deleteCredentials"])

\* first segment of deleteConnection: if (this.isConnected(id)) await
\* this.disconnect(id), which throws if id has no config; else straight on
\* to the removal
deleteConnection(c, base, id) ==
    IF isConnected(id)
    THEN /\ IF connections[id] = NoConfig
            THEN ReturnAtOnce(c, "delete", id, "NotFound")
            ELSE Start(c, getProviderStart([base EXCEPT !.op = "delete", !.id = id,
                                                         !.wasConn = TRUE,
                                                         !.type = connections[id].type]))
         /\ UNCHANGED <<connections, connectionStatus>>
    ELSE deleteRemove(c, [base EXCEPT !.op = "delete", !.id = id])

DeleteCall(c, id) ==
    /\ MayStart(c)
    /\ deleteConnection(c, IdleCall, id)
    /\ UNCHANGED <<ioFaults, secrets, workspaceState, provVars, otherVars>>

\* deleteConnection resumes after the awaited disconnect
DeleteRemove(c) ==
    /\ call[c].pc = "deleteRemove"
    /\ deleteRemove(c, call[c])
    /\ UNCHANGED <<ioFaults, secrets, workspaceState, provVars, otherVars>>

\* SecretManager.deleteCredentials settles (the store deletes the entry, or
\* rejects); saveConnections then takes its copy of the connection map and
\* calls workspaceState.update
DeleteCredentialsDone(c) ==
    /\ call[c].pc = "deleteCredentials"
    /\ \E ok \in BOOLEAN :
         IF ok
         THEN /\ secrets' = [secrets EXCEPT ![call[c].id] = "absent"]
              /\ Goto(c, [call[c] EXCEPT !.pc = "saveConnections", !.snap = connections])
              /\ UNCHANGED ioFaults
         ELSE /\ ioFaults < MaxFaults
              /\ ioFaults' = ioFaults + 1
              /\ Return(c, "SecretStoreError")
              /\ UNCHANGED secrets
    /\ UNCHANGED <<connections, connectionStatus, workspaceState, provVars, otherVars>>

\* workspaceState.update('connections', connectionsArray) settles
SaveConnectionsDone(c) ==
    /\ call[c].pc = "saveConnections"
    /\ \E ok \in BOOLEAN :
         IF ok
         THEN /\ workspaceState' = call[c].snap
              /\ Return(c, "ok")
              /\ UNCHANGED ioFaults
         ELSE /\ ioFaults < MaxFaults
              /\ ioFaults' = ioFaults + 1
              /\ Return(c, "SaveError")
              /\ UNCHANGED workspaceState
    /\ UNCHANGED <<connections, connectionStatus, secrets, provVars, otherVars>>

----------------------------------------------------------------------------
(* ConnectionManager.addConnection / updateConnection *)

\* the field "hostIsSocket" says that the host is 'local', 'unix' or a path
validateConnectionConfigPortOptional(cfg) ==
    /\ {"id", "name", "type"} \subseteq cfg.fields
    /\ IF cfg.type = "sqlite"
       THEN "database" \in cfg.fields
       ELSE IF cfg.type = "docker"
       THEN TRUE
       ELSE "host" \in cfg.fields

validateConnectionConfig(cfg) ==
    /\ {"id", "name", "type"} \subseteq cfg.fields
    /\ IF cfg.type = "sqlite"
       THEN "database" \in cfg.fields
       ELSE IF cfg.type = "docker"
       THEN ("host" \in cfg.fields /\ "hostIsSocket" \notin cfg.fields) => "port" \in cfg.fields
       ELSE {"host", "port"} \subseteq cfg.fields

\* the configs a caller may hand to validation: any kind, every field
\* present or not, a host that names a socket or a machine
ValidationInputs ==
    {cfg \in [name : {"n1"}, type : Types \cup {"docker"},
              fields : SUBSET {"id", "name", "type", "host", "hostIsSocket", "port", "database"}] :
        "hostIsSocket" \in cfg.fields => "host" \in cfg.fields}

NoValidation == [done |-> FALSE, config |-> NoConfig, passed |-> FALSE]

\* a call of validateConnectionConfig
ValidateConnectionConfig(config) ==
    /\ ~validated.done
    /\ validated' = [done |-> TRUE, config |-> config,
                     passed |-> validateConnectionConfig(config)]
    /\ UNCHANGED <<regVars, provVars, call, overlap, lastDone, run, parse, file, groupVars, histVars, otherVars>>

\* first segment of addConnection: validate, this.connections.set(config.id,
\* config), then storeCredentials is called
addConnectionSetFirst(c, base, id, cfg, creds) ==
    IF ~validateConnectionConfig(cfg)
    THEN /\ ReturnAtOnce(c, "add", id, "ValidationError")
         /\ connections' = [connections EXCEPT ![id] = cfg]
         /\ UNCHANGED connectionStatus
    ELSE /\ connections' = [connections EXCEPT ![id] = cfg]
         /\ Goto(c, [base EXCEPT !.pc = "storeCredentials", !.op = "add", !.id = id,
                                 !.cfg = cfg, !.creds = creds])
         /\ UNCHANGED connectionStatus

addConnection(c, base, id, cfg, creds) ==
    IF ~validateConnectionConfig(cfg)
    THEN /\ IF Idle(c) THEN ReturnAtOnce(c, IF base.outer = "import" THEN "import" ELSE "add",
                                            id, "ValidationError")
                       ELSE Return(c, "ValidationError")
         /\ UNCHANGED <<connections, connectionStatus>>
    ELSE /\ connections' = [connections EXCEPT ![id] = cfg]
         /\ Goto(c, [base EXCEPT !.pc = "storeCredentials", !.op = "add", !.id = id,
                                 !.cfg = cfg, !.creds = creds])
         /\ UNCHANGED connectionStatus

AddConnectionCall(c, id, cfg, creds) ==
    /\ MayStart(c)
    /\ edits < MaxEdits
    /\ edits' = edits + 1
    /\ addConnection(c, IdleCall, id, cfg, creds)
    /\ UNCHANGED <<ioFaults, secrets, workspaceState, provVars, tunVars>>

UpdateConnectionCall(c, id, cfg, creds) ==
    /\ MayStart(c)
    /\ edits < MaxEdits
    /\ edits' = edits + 1
    /\ IF connections[id] = NoConfig
       THEN /\ ReturnAtOnce(c, "update", id, "NotFound")
            /\ UNCHANGED connections
       ELSE IF ~validateConnectionConfig(cfg)
       THEN /\ ReturnAtOnce(c, "update", id, "ValidationError")
            /\ UNCHANGED connections
       ELSE /\ connections' = [connections EXCEPT ![id] = cfg]
            /\ Goto(c, [IdleCall EXCEPT !.op = "update", !.id = id, !.cfg = cfg, !.creds = creds,
                            !.pc = IF creds # "undefined" THEN "storeCredentials"
                                                          ELSE "saveConnections",
                            !.snap = IF creds # "undefined" THEN NoSnap
                                     ELSE [connections EXCEPT ![id] = cfg]])
    /\ UNCHANGED <<ioFaults, connectionStatus, secrets, workspaceState, provVars, tunVars>>

\* SecretManager.storeCredentials settles; saveConnections is called
StoreCredentialsDone(c) ==
    /\ call[c].pc = "storeCredentials"
    /\ \E ok \in BOOLEAN :
         IF ok
         THEN /\ secrets' = [secrets EXCEPT ![call[c].id] = call[c].creds]
              /\ Goto(c, [call[c] EXCEPT !.pc = "saveConnections", !.snap = connections])
              /\ UNCHANGED ioFaults
         ELSE /\ ioFaults < MaxFaults
              /\ ioFaults' = ioFaults + 1
              /\ Return(c, "SecretStoreError")
              /\ UNCHANGED secrets
    /\ UNCHANGED <<connections, connectionStatus, workspaceState, provVars, otherVars>>

----------------------------------------------------------------------------
(* ConnectionExplorer: the configs the add and edit commands build, and    *)
(* importConnections (one record of the import file per call)              *)

ConfigOf(type, name) ==
    [name |-> name, type |-> type,
     fields |-> IF type = "sqlite" THEN {"id", "name", "type", "database"}
                                   ELSE {"id", "name", "type", "host", "port"}]

\* the same config without its port, or without the database file of SQLite
\* (as an import file or an edit may hand it over)
Incomplete(cfg) == [cfg EXCEPT !.fields = @ \ {"port", "database"}]

\* editConnection: { ...config, name, host, port, database, username }
editConfig(old, name) ==
    [old EXCEPT !.name = name,
                !.fields = IF old.type = "sqlite" THEN @ ELSE @ \cup {"host", "port"}]

\* an id with no trace in the registry or the stores (ids are generated
\* from the clock)
Fresh(id) ==
    /\ connections[id] = NoConfig
    /\ workspaceState[id] = NoConfig
    /\ connectionStatus[id] = NoStatus
    /\ secrets[id] = "absent"
    /\ \A t \in Types, n \in Insts : provConnections[t][n][id] = 0

ConfigKeys == {"name", "type", "host", "port", "database", "username"}

\* records of an import file: the keys exportConnections writes, by type,
\* with the encoded password or the _passwordExcluded mark
ImportRecords ==
    {r \in [id : Ids, name : Names, type : Types,
            fields : {{"name", "type", "host", "port"}, {"name", "type", "database"}},
            password : {"none", "cA=="}, excluded : BOOLEAN] :
        /\ r.excluded => r.password = "none"
        /\ r.fields = ConfigOf(r.type, r.name).fields \ {"id"}}

\* what the user answers: the file's passwordsIncluded flag, Skip or
\* Overwrite on a name collision, the password typed at the prompt
ImportAnswers ==
    {a \in [included : BOOLEAN, choice : {"Skip", "Overwrite"}, entered : {"none", "q"}] :
        a.included => a.entered = "none"}

\* Buffer.from(text, 'base64').toString('utf-8')
base64Decode(text) ==
    IF text = "cA==" THEN "p" ELSE IF text = "cQ==" THEN "q" ELSE IF text = "cw==" THEN "s"
    ELSE "none"

\* the config importConnections prepares from a record: the listed keys only
importConfigSpread(rec) ==
    [name |-> rec.name, type |-> rec.type,
     fields |-> {"id"} \cup rec.fields \cup (IF rec.password # "none" THEN {"password"} ELSE {})]

importConfig(rec) ==
    [name |-> rec.name, type |-> rec.type,
     fields |-> {"id"} \cup (rec.fields \cap ConfigKeys)]

\* the credentials importConnections hands to addConnection: { password },
\* where password is the decoded one, the one entered at the prompt, or ''
importCredentials(rec, included, entered) ==
    IF included /\ rec.password # "none" THEN base64Decode(rec.password)
    ELSE IF rec.excluded /\ entered # "none" THEN entered
    ELSE "empty"

ImportCall(c, rec, included, choice, entered) ==
    /\ MayStart(c)
    /\ edits < MaxEdits
    /\ edits' = edits + 1
    /\ LET newId == rec.id
           matches == {e \in Ids : Registered(e) /\ connections[e].name = rec.name}
           base == [IdleCall EXCEPT !.outer = "import", !.newId = newId,
                                    !.cfg = importConfig(rec),
                                    !.creds = importCredentials(rec, included, entered)] IN
       IF matches = {}
       THEN addConnection(c, base, newId, base.cfg, base.creds)
       ELSE \E e \in matches :
               IF choice = "Overwrite"
               THEN deleteConnection(c, [base EXCEPT !.exists = e], e)
               ELSE /\ ReturnAtOnce(c, "import", e, "skipped")
                    /\ UNCHANGED <<connections, connectionStatus>>
    /\ UNCHANGED <<ioFaults, secrets, workspaceState, provVars, tunVars>>

\* after the colliding connection is deleted: addConnection(newConfig, { password })
ImportAdd(c) ==
    /\ call[c].pc = "importAdd"
    /\ addConnection(c, call[c], call[c].newId, call[c].cfg, call[c].creds)
    /\ UNCHANGED <<ioFaults, secrets, workspaceState, provVars, otherVars>>

----------------------------------------------------------------------------
(* ConnectionExplorer.exportConnections *)

\* ConnectionManager.getPassword: the password property of the parsed
\* entry when it is a string, undefined otherwise
getPassword(text) ==
    IF getCredentials(text) = "null" THEN "undefined"
    ELSE IF text \in {"s", "p", "q"} THEN text
    ELSE IF text = "empty" THEN ""
    ELSE "undefined"

\* Buffer.from(password).toString('base64')
base64Encode(password) ==
    IF password = "p" THEN "cA==" ELSE IF password = "q" THEN "cQ=="
    ELSE IF password = "s" THEN "cw==" ELSE "none"

\* the record written for one connection: the seven listed keys, then the
\* encoded password if there is a non-empty one, or the _passwordExcluded mark
exported(id, cfg, text, shouldIncludePasswords) ==
    [id |-> id, name |-> cfg.name, type |-> cfg.type,
     fields |-> cfg.fields \cap ConfigKeys,
     password |-> IF shouldIncludePasswords /\ getPassword(text) \notin {"undefined", ""}
                  THEN base64Encode(getPassword(text)) ELSE "none",
     excluded |-> ~shouldIncludePasswords]

\* getConnections(): the registered configs in the order of the map
RECURSIVE getConnections(_)
getConnections(ids) ==
    IF ids = {} THEN <<>>
    ELSE LET id == CHOOSE i \in ids : \A j \in ids : i = j \/ i = "a"
         IN  <<id>> \o getConnections(ids \ {id})

NoFile == [written |-> FALSE, passwordsIncluded |-> FALSE, connections |-> <<>>,
           from |-> [connections |-> <<>>, secrets |-> <<>>]]

\* the export command, from the list of connections to the written file
\* (from: the registry and the secret store it was written from)
ExportConnections(shouldIncludePasswords) ==
    /\ InFlight = {}
    /\ ~file.written
    /\ {id \in Ids : Registered(id)} # {}
    /\ LET ids == getConnections({id \in Ids : Registered(id)})
       IN  file' = [written |-> TRUE, passwordsIncluded |-> shouldIncludePasswords,
                    connections |-> [n \in DOMAIN ids |->
                        exported(ids[n], connections[ids[n]], secrets[ids[n]],
                                 shouldIncludePasswords)],
                    from |-> [connections |-> connections, secrets |-> secrets]]
    /\ UNCHANGED <<regVars, provVars, call, overlap, lastDone, run, parse, validated, groupVars, histVars, otherVars>>

----------------------------------------------------------------------------
(* ConnectionManager: groups and connection metadata. Every method runs to *)
(* its end in one step: it awaits nothing before it returns.               *)

\* group ids are made from the clock and a random suffix: the n-th group
\* created has id n, and no id is used twice
GroupIds == 1 .. MaxGroups

\* connectionIds is the array of the group. A deleted group keeps, in this
\* record only, the members it had
NoGroup == [st |-> "none", connectionIds |-> <<>>]

\* connectionIds.includes(id)
includes(connectionIds, id) == \E n \in DOMAIN connectionIds : connectionIds[n] = id

\* connectionIds.filter(id => id !== connectionId)
filter(connectionIds, connectionId) == SelectSeq(connectionIds, LAMBDA id : id # connectionId)

NoMetadata == [entry |-> FALSE, isFavorite |-> FALSE, groupId |-> 0]

groupFrame == UNCHANGED <<regVars, provVars, call, overlap, lastDone, run, parse, file,
                          validated, histVars, otherVars>>

CreateGroup ==
    /\ nextGroup < MaxGroups
    /\ nextGroup' = nextGroup + 1
    /\ groups' = [groups EXCEPT ![nextGroup + 1] = [st |-> "live", connectionIds |-> <<>>]]
    /\ UNCHANGED metadata
    /\ groupFrame

\* the loop of deleteGroup over group.connectionIds
clearAssignmentOfAll(md, connectionIds, groupId) ==
    [i \in Ids |-> IF includes(connectionIds, i) /\ md[i].entry
                   THEN [md[i] EXCEPT !.groupId = 0, !.isFavorite = FALSE] ELSE md[i]]

clearAssignment(md, connectionIds, groupId) ==
    [i \in Ids |-> IF includes(connectionIds, i) /\ md[i].entry /\ md[i].groupId = groupId
                   THEN [md[i] EXCEPT !.groupId = 0] ELSE md[i]]

\* deleteGroup of a group that exists (of another one it throws 'not found')
DeleteGroup(groupId) ==
    /\ groups[groupId].st = "live"
    /\ metadata' = clearAssignment(metadata, groups[groupId].connectionIds, groupId)
    /\ groups' = [groups EXCEPT ![groupId].st = "deleted"]
    /\ UNCHANGED nextGroup
    /\ groupFrame

\* addConnectionToGroup, 'Remove from old group if exists': the groups after
\* the connection has left the group its metadata names, if that is another
\* group and it still exists
removeFromOldGroupSkipped(gs, old, groupId, connectionId) == gs

removeFromOldGroup(gs, old, groupId, connectionId) ==
    IF old # 0 /\ old # groupId /\ gs[old].st = "live"
    THEN [gs EXCEPT ![old].connectionIds = filter(@, connectionId)]
    ELSE gs

AddConnectionToGroup(connectionId, groupId) ==
    /\ groups[groupId].st = "live"
    /\ LET meta == IF metadata[connectionId].entry THEN metadata[connectionId]
                   ELSE [entry |-> TRUE, isFavorite |-> FALSE, groupId |-> 0]
           left == removeFromOldGroup(groups, meta.groupId, groupId, connectionId)
       IN  /\ metadata' = [metadata EXCEPT ![connectionId] = [meta EXCEPT !.groupId = groupId]]
           /\ groups' = [left EXCEPT ![groupId].connectionIds =
                                        IF includes(@, connectionId) THEN @
                                        ELSE Append(@, connectionId)]
    /\ UNCHANGED nextGroup
    /\ groupFrame

RemoveConnectionFromGroup(connectionId) ==
    /\ metadata[connectionId].entry
    /\ metadata[connectionId].groupId # 0
    /\ LET old == metadata[connectionId].groupId
       IN  groups' = IF groups[old].st = "live"
                     THEN [groups EXCEPT ![old].connectionIds = filter(@, connectionId)]
                     ELSE groups
    /\ metadata' = [metadata EXCEPT ![connectionId].groupId = 0]
    /\ UNCHANGED nextGroup
    /\ groupFrame

ToggleFavorite(connectionId) ==
    /\ metadata' = [metadata EXCEPT ![connectionId] =
                        IF @.entry THEN [@ EXCEPT !.isFavorite = ~@]
                        ELSE [entry |-> TRUE, isFavorite |-> TRUE, groupId |-> 0]]
    /\ UNCHANGED <<groups, nextGroup>>
    /\ groupFrame

----------------------------------------------------------------------------
(* QueryHistory: the stored list of executed queries. The commands are      *)
(* issued one after the other; an entry is known by its id, the n-th entry *)
(* made has id n                                                           *)

MAX_HISTORY_SIZE == 100

historyFrame == UNCHANGED <<regVars, provVars, call, overlap, lastDone, run, parse, file,
                            validated, groupVars, otherVars>>

\* history.splice(n): the first n entries stay
keepFirst(h, n) == IF Len(h) > n THEN SubSeq(h, 1, n) ELSE h

\* history.unshift(entry), then the cut to MAX_HISTORY_SIZE entries
unshiftNoCut(h, entry) == <<entry>> \o h

unshift(h, entry) == keepFirst(<<entry>> \o h, MAX_HISTORY_SIZE)

AddToHistory ==
    /\ nextEntry < MaxEntries
    /\ nextEntry' = nextEntry + 1
    /\ history' = unshift(history, nextEntry + 1)
    /\ UNCHANGED removals
    /\ historyFrame

ClearHistory ==
    /\ removals < MaxRemovals
    /\ removals' = removals + 1
    /\ history' = <<>>
    /\ UNCHANGED nextEntry
    /\ historyFrame

\* history.splice(index, 1) at the index of the entry with the item's id
\* (an item whose entry is gone changes nothing)
DeleteQuery(id) ==
    /\ removals < MaxRemovals
    /\ removals' = removals + 1
    /\ history' = SelectSeq(history, LAMBDA e : e # id)
    /\ UNCHANGED nextEntry
    /\ historyFrame

----------------------------------------------------------------------------
(* TunnelManager *)

NoTunnel == [id |-> "none", port |-> 0, server |-> "none", client |-> "none"]

IdleTCall == [pc |-> "idle", op |-> "none", id |-> "none", k |-> 0, creds |-> "none",
              pend |-> {}]

Listening(k) == tunnels[k].server = "listening"

FreePorts == (1 .. MaxPort) \ {tunnels[k].port : k \in {j \in 1 .. MaxTunnels : Listening(j)}}

hasTunnel(id) == activeTunnels[id] # 0

NoSocket == [k |-> 0, st |-> "none"]

\* the accepted connections of server k that have not ended
OpenSockets(k) == {s \in 1 .. MaxSockets : sockets[s].k = k /\ sockets[s].st \in {"opening", "piped", "stuck"}}

\* the slot the next createTunnel / closeTunnel call starts in
FreeTSlots ==
    {c \in Calls : /\ tcall[c].pc = "idle"
                   /\ \A d \in Calls : d < c => tcall[d].pc # "idle"
                   /\ overlap \/ \A d \in Calls : tcall[d].pc = "idle"}

NoTRet == [op |-> "none", id |-> "none", outcome |-> "none", port |-> 0]

\* the call in slot c resolves with a port (0 for closeTunnel), or rejects
TReturn(c, outcome, port) ==
    /\ tcall' = [tcall EXCEPT ![c] = IdleTCall]
    /\ tlast' = [op |-> tcall[c].op, id |-> tcall[c].id, outcome |-> outcome, port |-> port]

\* createTunnel, first segment: an existing entry answers with its port;
\* otherwise a client and a server are made and server.listen(0) is called
CreateTunnelCall(c, id, creds) ==
    /\ tcall[c].pc = "idle"
    /\ IF hasTunnel(id)
       THEN /\ tlast' = [op |-> "create", id |-> id, outcome |-> "existing",
                          port |-> tunnels[activeTunnels[id]].port]
            /\ UNCHANGED <<tcall, tunnels, nextTunnel>>
       ELSE /\ nextTunnel < MaxTunnels
            /\ nextTunnel' = nextTunnel + 1
            /\ tunnels' = [tunnels EXCEPT ![nextTunnel + 1] =
                              [id |-> id, port |-> 0, server |-> "binding", client |-> "new"]]
            /\ tcall' = [tcall EXCEPT ![c] = [pc |-> "listen", op |-> "create", id |-> id,
                                              k |-> nextTunnel + 1, creds |-> creds, pend |-> {}]]
            /\ UNCHANGED tlast
    /\ UNCHANGED <<regVars, provVars, callVars, edits, sockets, nextSocket, activeTunnels>>

\* the listen callback (listen(0): the system picks a free port, the lowest
\* free one stands for it): the port is known, the handlers are registered and
\* client.connect is called, unless neither key nor password was given
ListenDone(c) ==
    /\ tcall[c].pc = "listen"
    /\ \E p \in {q \in FreePorts : \A r \in FreePorts : q <= r} :
         IF tcall[c].creds = "none"
         THEN /\ tunnels' = [tunnels EXCEPT ![tcall[c].k].server = "listening",
                                            ![tcall[c].k].port = p]
              /\ TReturn(c, "error", 0)
         ELSE /\ tunnels' = [tunnels EXCEPT ![tcall[c].k].server = "listening",
                                            ![tcall[c].k].port = p,
                                            ![tcall[c].k].client = "connecting"]
              /\ tcall' = [tcall EXCEPT ![c].pc = "sshConnect"]
              /\ UNCHANGED tlast
    /\ UNCHANGED <<regVars, provVars, callVars, edits, sockets, nextSocket, activeTunnels, nextTunnel>>

\* server.on('error'): the local server could not listen
ListenError(c) ==
    /\ tcall[c].pc = "listen"
    /\ tunnels' = [tunnels EXCEPT ![tcall[c].k].server = "failed"]
    /\ TReturn(c, "error", 0)
    /\ UNCHANGED <<regVars, provVars, callVars, edits, sockets, nextSocket, activeTunnels, nextTunnel>>

\* client.on('ready'): the tunnel is stored and the promise resolves
SshReady(c) ==
    /\ tcall[c].pc = "sshConnect"
    /\ tunnels[tcall[c].k].client = "connecting"
    /\ tunnels' = [tunnels EXCEPT ![tcall[c].k].client = "ready"]
    /\ activeTunnels' = [activeTunnels EXCEPT ![tcall[c].id] = tcall[c].k]
    /\ TReturn(c, "ok", tunnels[tcall[c].k].port)
    /\ UNCHANGED <<regVars, provVars, callVars, edits, sockets, nextSocket, nextTunnel>>

\* client.on('error'): server.close() and reject (a no-op once resolved)
SshError(k) ==
    /\ tunnels[k].client \in {"connecting", "ready"}
    /\ tunnels' = [tunnels EXCEPT ![k].client = "failed",
                                  ![k].server = IF @ = "listening" THEN "closed" ELSE @]
    /\ IF \E c \in Calls : tcall[c].pc = "sshConnect" /\ tcall[c].k = k
       THEN \E c \in Calls : /\ tcall[c].pc = "sshConnect"
                              /\ tcall[c].k = k
                              /\ TReturn(c, "error", 0)
       ELSE UNCHANGED <<tcall, tlast>>
    /\ UNCHANGED <<regVars, provVars, callVars, edits, sockets, nextSocket, activeTunnels, nextTunnel>>

\* client.on('close'): this.activeTunnels.delete(connectionId)
SshClose(k) ==
    /\ tunnels[k].client \in {"failed", "ended", "ready"}
    /\ \A c \in Calls : ~(tcall[c].pc = "sshConnect" /\ tcall[c].k = k)
    /\ tunnels' = [tunnels EXCEPT ![k].client = "closed"]
    /\ activeTunnels' = [activeTunnels EXCEPT ![tunnels[k].id] = 0]
    /\ UNCHANGED <<regVars, provVars, callVars, edits, sockets, nextSocket, nextTunnel, tcall, tlast>>

\* closeTunnel, first segment: no entry returns; else server.close(callback),
\* after which the server no longer listens
CloseTunnelCall(c, id) ==
    /\ tcall[c].pc = "idle"
    /\ IF hasTunnel(id)
       THEN /\ tcall' = [tcall EXCEPT ![c] = [pc |-> "serverClose", op |-> "close", id |-> id,
                                              k |-> activeTunnels[id], creds |-> "none", pend |-> {}]]
            /\ tunnels' = [tunnels EXCEPT ![activeTunnels[id]].server =
                                              IF @ = "listening" THEN "closing" ELSE @]
            /\ UNCHANGED tlast
       ELSE /\ tlast' = [op |-> "close", id |-> id, outcome |-> "noop", port |-> 0]
            /\ UNCHANGED <<tcall, tunnels>>
    /\ UNCHANGED <<regVars, provVars, callVars, edits, sockets, nextSocket, activeTunnels, nextTunnel>>

\* the tunnels once server.close has completed and its callback has run
\* tunnel.client.end()
closeCallbackKeepClient(ts, k) ==
    [ts EXCEPT ![k].server = "closed"]

closeCallback(ts, k) ==
    [ts EXCEPT ![k].server = "closed",
               ![k].client = IF @ = "ready" THEN "ended" ELSE @]

\* the close callback, which the server calls once it has stopped listening
\* and every accepted connection has ended:
\* tunnel.client.end(); this.activeTunnels.delete(id)
ServerCloseDone(c) ==
    /\ tcall[c].pc = "serverClose"
    /\ OpenSockets(tcall[c].k) = {}
    /\ tunnels' = closeCallback(tunnels, tcall[c].k)
    /\ activeTunnels' = [activeTunnels EXCEPT ![tcall[c].id] = 0]
    /\ TReturn(c, "ok", 0)
    /\ UNCHANGED <<regVars, provVars, callVars, edits, sockets, nextSocket, nextTunnel>>

\* closeAllTunnels, first segment: closeTunnel is called for every key of the
\* map, each call running up to its server.close(callback); with no key
\* Promise.all resolves at once
CloseAllTunnelsCall(c) ==
    /\ tcall[c].pc = "idle"
    /\ LET ks == {activeTunnels[id] : id \in {i \in Ids : hasTunnel(i)}}
       IN  IF ks = {}
           THEN /\ tlast' = [op |-> "closeAll", id |-> "none", outcome |-> "ok", port |-> 0]
                /\ UNCHANGED <<tcall, tunnels>>
           ELSE /\ tcall' = [tcall EXCEPT ![c] = [pc |-> "closeAll", op |-> "closeAll",
                                                  id |-> "none", k |-> 0, creds |-> "none",
                                                  pend |-> ks]]
                /\ tunnels' = [k \in 1 .. MaxTunnels |->
                                 IF k \in ks /\ tunnels[k].server = "listening"
                                 THEN [tunnels[k] EXCEPT !.server = "closing"]
                                 ELSE tunnels[k]]
                /\ UNCHANGED tlast
    /\ UNCHANGED <<regVars, provVars, callVars, edits, sockets, nextSocket, activeTunnels, nextTunnel>>

\* the close callback of one of the closeTunnel calls closeAllTunnels made;
\* Promise.all resolves with the last of them
CloseAllCallback(c, k) ==
    /\ tcall[c].pc = "closeAll"
    /\ k \in tcall[c].pend
    /\ OpenSockets(k) = {}
    /\ tunnels' = closeCallback(tunnels, k)
    /\ activeTunnels' = [activeTunnels EXCEPT ![tunnels[k].id] = 0]
    /\ IF tcall[c].pend = {k}
       THEN TReturn(c, "ok", 0)
       ELSE /\ tcall' = [tcall EXCEPT ![c].pend = @ \ {k}]
            /\ UNCHANGED tlast
    /\ UNCHANGED <<regVars, provVars, callVars, edits, sockets, nextSocket, nextTunnel>>

\* server.on('connection'): client.forwardOut(...) is called for the accepted
\* socket. On a client that is not connected forwardOut throws and the
\* socket is left as it is; on a client that is still connecting either
\* happens
AcceptConnection(k) ==
    /\ Listening(k)
    /\ nextSocket < MaxSockets
    /\ nextSocket' = nextSocket + 1
    /\ \E st \in {"opening", "stuck"} :
         /\ tunnels[k].client = "ready" => st = "opening"
         /\ tunnels[k].client \notin {"ready", "connecting"} => st = "stuck"
         /\ sockets' = [sockets EXCEPT ![nextSocket + 1] = [k |-> k, st |-> st]]
    /\ UNCHANGED <<regVars, provVars, callVars, edits, activeTunnels, tunnels, nextTunnel, tcall, tlast>>

\* the tunnels after the forwardOut callback ran: it pipes the socket into
\* the stream, or ends the socket, and touches neither server nor client
forwardOutCloseServer(ts, k, ok) ==
    IF ok THEN ts ELSE [ts EXCEPT ![k].server = IF @ = "listening" THEN "closed" ELSE @]

forwardOut(ts, k, ok) == ts

\* the forwardOut callback: (err, stream) => socket.end() on err, else pipe
ForwardOutDone(s) ==
    /\ sockets[s].st = "opening"
    /\ \E ok \in BOOLEAN :
         /\ ok => tunnels[sockets[s].k].client = "ready"
         /\ sockets' = [sockets EXCEPT ![s].st = IF ok THEN "piped" ELSE "refused"]
         /\ tunnels' = forwardOut(tunnels, sockets[s].k, ok)
    /\ UNCHANGED <<regVars, provVars, callVars, edits, activeTunnels, nextTunnel, tcall, nextSocket, tlast>>

\* an accepted connection ends: the local peer closes it, or the forwarded
\* stream ends and the pipe ends the socket
SocketEnd(s) ==
    /\ sockets[s].st \in {"piped", "stuck"}
    /\ sockets' = [sockets EXCEPT ![s].st = "ended"]
    /\ UNCHANGED <<regVars, provVars, callVars, edits, activeTunnels, tunnels, nextTunnel, tcall,
                   nextSocket, tlast>>

----------------------------------------------------------------------------
(* Script runs of the explorer (runSQLScript, runCypherScript)            *)

MaxLen == 3
\* chunks of a script at most

\* what script.split(';') yields, chunk by chunk: a USE statement, two other
\* statements, a chunk of white space, and a statement under a comment line
Chunks == {"USE", "S1", "S2", "blank", "cS3"}

Scripts == UNION {[1 .. n -> Chunks] : n \in 0 .. MaxLen}

\* runSQLScript: split(';').filter(s => s.trim() && !s.trim().startsWith('--')),
\* each statement trimmed before it is sent.
\* runCypherScript: the lines starting with // are removed before the split,
\* then map(trim).filter(length > 0)
RECURSIVE statements(_, _)
statements(kind, script) ==
    IF script = <<>> THEN <<>>
    ELSE LET h == Head(script)
             rest == statements(kind, Tail(script))
         IN  IF h = "blank" THEN rest
             ELSE IF h = "cS3" THEN (IF kind = "sql" THEN rest ELSE <<"S3">> \o rest)
             ELSE <<h>> \o rest

MaxText == 4
\* characters of a script text at most

\* the characters of a script text: a letter, the semicolon, the single
\* quote, "-" for the two dashes that open a comment, "n" for a line break
Chars == {"a", ";", "'", "-", "n"}

Texts == UNION {[1 .. n -> Chars] : n \in 0 .. MaxText}

\* String.prototype.split(';'): the text is cut at every semicolon
RECURSIVE split(_)
split(text) ==
    IF \A n \in DOMAIN text : text[n] # ";" THEN <<text>>
    ELSE LET cut == CHOOSE n \in DOMAIN text :
                       text[n] = ";" /\ \A m \in 1 .. n - 1 : text[m] # ";"
         IN  <<SubSeq(text, 1, cut - 1)>> \o split(SubSeq(text, cut + 1, Len(text)))

\* String.prototype.trim(): white space at both ends is dropped
RECURSIVE trim(_)
trim(t) ==
    IF t = <<>> THEN t
    ELSE IF Head(t) = "n" THEN trim(Tail(t))
    ELSE IF t[Len(t)] = "n" THEN trim(SubSeq(t, 1, Len(t) - 1))
    ELSE t

\* the filter of runSQLScript: s.trim() && !s.trim().startsWith('--')
keepChunk(chunk) == trim(chunk) # <<>> /\ Head(trim(chunk)) # "-"

\* the statements runSQLScript sends for a text: the chunks of split(';')
\* that pass the filter, each trimmed
sqlStatements(text) ==
    LET kept == SelectSeq(split(text), keepChunk)
    IN  [n \in 1 .. Len(kept) |-> trim(kept[n])]

\* !script.trim(): nothing but white space
IsEmptyScript(script) == \A n \in DOMAIN script : script[n] = "blank"

\* the rows provider.executeQuery returns for a statement
Result(stmt) == <<stmt>>

NoError == [shown |-> FALSE, text |-> "none", stmt |-> 0]

IdleRun == [pc |-> "idle", kind |-> "none", ctx |-> "none", stmts |-> <<>>, i |-> 0,
            sent |-> <<>>, results |-> <<>>, shown |-> [done |-> FALSE, doc |-> <<>>],
            error |-> NoError, logged |-> <<>>, text |-> <<>>]

\* queryToLog: the statement, under the context of a connection with a database
queryToLog(kind, ctx, stmt) ==
    [prefix |-> IF kind = "sql" THEN ctx ELSE "none", q |-> stmt]

\* the result document of a finished run: runSQLScript shows
\* JSON.stringify(results) with one result pushed per statement;
\* runCypherScript pushes the rows of every result (results.push(...result))
\* and hands all of them to the graph view
showResults(r) ==
    [r EXCEPT !.pc = "done", !.shown = [done |-> TRUE, doc |-> r.results]]

\* the for loop over statements reaches its next statement, or ends
nextStatement(r) ==
    IF r.i < Len(r.stmts)
    THEN [r EXCEPT !.pc = "exec", !.i = r.i + 1, !.sent = Append(@, r.stmts[r.i + 1])]
    ELSE showResults(r)

scriptFrame == UNCHANGED <<regVars, provVars, call, overlap, lastDone, parse, file, validated, groupVars, histVars, otherVars>>

\* the command is invoked on an item of a connection: the script document
\* opens and the prompt with 'Execute' and 'Close' shows. ctx tells whether
\* the config names a database, and of which kind the connection is
RunScriptCommand(kind, ctx) ==
    /\ run.pc \in {"idle", "closed"}
    /\ kind = "cypher" => ctx = "none"
    /\ run' = [IdleRun EXCEPT !.pc = "prompt", !.kind = kind, !.ctx = ctx]
    /\ scriptFrame

\* 'Execute' is pressed at the prompt, the first one or the one the loop
\* shows after a run (statements, results and times are locals of one
\* iteration): the text is read; an empty script warns and the loop prompts
\* again; else the provider is awaited
ExecuteScript(script) ==
    /\ run.pc \in {"prompt", "done"}
    /\ LET fresh == [IdleRun EXCEPT !.pc = "prompt", !.kind = run.kind, !.ctx = run.ctx]
       IN  run' = IF IsEmptyScript(script)
                  THEN fresh
                  ELSE [fresh EXCEPT !.pc = "getProvider",
                                     !.stmts = statements(run.kind, script)]
    /\ scriptFrame

\* the same press, with the text of the editor taken character by
\* character: runSQLScript splits it and filters the chunks itself
ExecuteText(text) ==
    /\ run.pc \in {"prompt", "done"}
    /\ run.kind = "sql"
    /\ LET fresh == [IdleRun EXCEPT !.pc = "prompt", !.kind = run.kind, !.ctx = run.ctx]
       IN  run' = IF trim(text) = <<>>
                  THEN fresh
                  ELSE [fresh EXCEPT !.pc = "getProvider",
                                     !.text = text,
                                     !.stmts = sqlStatements(text)]
    /\ scriptFrame

\* 'Close' is pressed, or the prompt is dismissed: the loop ends
CloseScript ==
    /\ run.pc \in {"prompt", "done"}
    /\ run' = [IdleRun EXCEPT !.pc = "closed"]
    /\ scriptFrame

\* getProviderForConnection settles; for MySQL/MariaDB with a database in the
\* config, USE `<database>` is sent first
ScriptGotProvider(ok) ==
    /\ run.pc = "getProvider"
    /\ run' = IF ~ok
              THEN [run EXCEPT !.pc = "done",
                               !.error = [shown |-> TRUE, text |-> "Provider not available",
                                          stmt |-> 0]]
              ELSE IF run.kind = "sql" /\ run.ctx = "mysql"
              THEN [run EXCEPT !.pc = "preUse", !.sent = <<"USE config.database">>]
              ELSE nextStatement(run)
    /\ scriptFrame

\* the USE of the configured database settles; its failure is ignored
PreUseDone ==
    /\ run.pc = "preUse"
    /\ run' = nextStatement(run)
    /\ scriptFrame

\* provider.executeQuery settles for statement i. On success the result is
\* pushed and the statement is passed to logQueryToHistory (logged keeps
\* what the run passed), then the loop goes on.
\* On failure the catch shows '<SQL|Cypher> execution failed: ' followed by
\* the message of the provider's error, whatever the driver put into it:
\* it may or may not tell the statement
StatementDone(ok, tells) ==
    /\ run.pc = "exec"
    /\ ok => ~tells
    /\ LET stmt == run.stmts[run.i] IN
       run' = IF ok
              THEN nextStatement(
                     [run EXCEPT !.results = IF run.kind = "sql"
                                             THEN Append(@, Result(stmt))
                                             ELSE @ \o Result(stmt),
                                 !.logged = Append(@, queryToLog(run.kind, run.ctx, stmt))])
              ELSE [run EXCEPT !.pc = "done",
                               !.error = [shown |-> TRUE, text |-> "execution failed",
                                          stmt |-> IF tells THEN run.i ELSE 0]]
    /\ scriptFrame

----------------------------------------------------------------------------
(* parseMongoArguments (ConnectionExplorer and MongoDBProvider: the two    *)
(* copies are the same code)                                               *)

MaxArg == 6
\* characters of an argument string at most

\* the characters of an argument string: the comma, the two quotes ("q" is
\* the double quote), the backslash ("b"), an opening and a closing bracket
\* and a blank ("n", as in the script texts)
ArgChars == {",", "q", "'", "b", "{", "}", "n"}

ArgTexts == UNION {[1 .. n -> ArgChars] : n \in 0 .. MaxArg}

\* the loop of parseMongoArguments from character i on. st holds the locals:
\* args, currentArg, depth, inString, stringChar; cuts lists the positions
\* of the commas the loop split at
RECURSIVE parseLoop(_, _, _)
parseLoop(argsStr, i, st) ==
    IF i > Len(argsStr)
    THEN [st EXCEPT !.args = IF trim(st.currentArg) # <<>>
                             THEN Append(@, trim(st.currentArg)) ELSE @]
    ELSE LET char == argsStr[i]
             prevChar == IF i > 1 THEN argsStr[i - 1] ELSE "none"
             isQuote == char \in {"q", "'"} /\ prevChar # "b"
             s1 == IF isQuote /\ ~st.inString
                   THEN [st EXCEPT !.inString = TRUE, !.stringChar = char]
                   ELSE IF isQuote /\ char = st.stringChar
                   THEN [st EXCEPT !.inString = FALSE]
                   ELSE st
         IN  IF ~s1.inString /\ char = "," /\ s1.depth = 0
             THEN parseLoop(argsStr, i + 1,
                            [s1 EXCEPT !.args = Append(@, trim(s1.currentArg)),
                                       !.currentArg = <<>>,
                                       !.cuts = @ \cup {i}])
             ELSE parseLoop(argsStr, i + 1,
                            [s1 EXCEPT !.depth = IF s1.inString THEN @
                                                ELSE IF char = "{" THEN @ + 1
                                                ELSE IF char = "}" THEN @ - 1
                                                ELSE @,
                                       !.currentArg = Append(@, char)])

parseMongoArguments(argsStr) ==
    parseLoop(argsStr, 1, [args |-> <<>>, currentArg |-> <<>>, depth |-> 0,
                           inString |-> FALSE, stringChar |-> "none", cuts |-> {}])

NoParse == [done |-> FALSE, argsStr |-> <<>>, args |-> <<>>, cuts |-> {}]

\* a call of parseMongoArguments
ParseMongoArguments(argsStr) ==
    /\ ~parse.done
    /\ LET r == parseMongoArguments(argsStr)
       IN  parse' = [done |-> TRUE, argsStr |-> argsStr, args |-> r.args, cuts |-> r.cuts]
    /\ UNCHANGED <<regVars, provVars, call, overlap, lastDone, run, file, validated, groupVars, histVars, otherVars>>

----------------------------------------------------------------------------
(* Initial states: the constructor loads the persisted configs; no status, *)
(* no provider, no session, no tunnel. The secret store may have lost or   *)
(* corrupted an entry since the configs were saved.                        *)
(* Spec: commands overlap, the stores answer every request.                *)
(* SeqSpec: commands are awaited one by one, the stores may reject.        *)

SavedConnections == [a |-> ConfigOf("postgresql", "n1"), b |-> ConfigOf("sqlite", "n2")]

InitCommon ==
    /\ connections = workspaceState
    /\ connectionStatus = [i \in Ids |-> NoStatus]
    /\ edits = 0
    /\ providers = [t \in Types |-> 0]
    /\ created = [t \in Types |-> 0]
    /\ provConnections = [t \in Types |-> [n \in Insts |-> [i \in Ids |-> 0]]]
    /\ nextHandle = 0
    /\ call = [c \in Calls |-> IdleCall]
    /\ lastDone = NoRet
    /\ run = IdleRun
    /\ parse = NoParse
    /\ file = NoFile
    /\ validated = NoValidation
    /\ groups = [g \in GroupIds |-> NoGroup]
    /\ metadata = [i \in Ids |-> NoMetadata]
    /\ nextGroup = 0
    /\ history = <<>>
    /\ nextEntry = 0
    /\ removals = 0
    /\ activeTunnels = [i \in Ids |-> 0]
    /\ tunnels = [k \in 1 .. MaxTunnels |-> NoTunnel]
    /\ nextTunnel = 0
    /\ tcall = [c \in Calls |-> IdleTCall]
    /\ tlast = NoTRet
    /\ sockets = [s \in 1 .. MaxSockets |-> NoSocket]
    /\ nextSocket = 0

Init ==
    /\ overlap = TRUE
    /\ ioFaults = MaxFaults
    /\ workspaceState = SavedConnections
    /\ secrets \in {[a |-> "s", b |-> "{}"], [a |-> "absent", b |-> "corrupt"]}
    /\ InitCommon

Next ==
    \/ \E c \in FreeSlots, id \in Ids : ConnectCall(c, id)
    \/ \E c \in Calls : ImportDone(c)
    \/ \E c \in Calls : ConnectGotProvider(c)
    \/ \E c \in Calls : GetCredentialsDone(c)
    \/ \E c \in Calls : ProviderConnectDone(c)
    \/ \E c \in FreeSlots, id \in Ids : DisconnectCall(c, id)
    \/ \E c \in Calls : DisconnectGotProvider(c)
    \/ \E c \in Calls : ProviderDisconnectDone(c)
    \/ \E c \in Calls : SetDisconnected(c)
    \/ \E c \in FreeSlots, id \in Ids : DeleteCall(c, id)
    \/ \E c \in Calls : DeleteRemove(c)
    \/ \E c \in Calls : DeleteCredentialsDone(c)
    \/ \E c \in Calls : SaveConnectionsDone(c)

Spec == Init /\ [][Next]_vars

\* export, then import of the written file into a registry that holds
\* nothing: the connections are exported, every one is deleted, and the
\* records of the file are imported in the order of the file
ExportedFrom ==
    {w \in [Ids -> {NoConfig} \cup {ConfigOf(t, n) : t \in Types, n \in Names}] :
        w["a"] = ConfigOf("postgresql", "n1")}

RoundTripInit ==
    /\ overlap = FALSE
    /\ ioFaults = 0
    /\ workspaceState \in ExportedFrom
    /\ secrets \in {t \in [Ids -> {"s", "p", "{}", "absent"}] :
                      \A id \in Ids : /\ workspaceState[id] = NoConfig => t[id] = "absent"
                                      /\ t[id] = "{}" => workspaceState[id].type = "sqlite"}
    /\ InitCommon

\* the record the import loop is at: one import per record, in file order
NextRecords ==
    IF file.written /\ (edits > 0 \/ \A id \in Ids : Fresh(id))
    THEN {file.connections[n] : n \in {edits + 1} \cap DOMAIN file.connections}
    ELSE {}

RoundTripNext ==
    \/ \E shouldIncludePasswords \in BOOLEAN : ExportConnections(shouldIncludePasswords)
    \/ \E c \in FreeSlots, id \in {i \in Ids : file.written /\ edits = 0} : DeleteCall(c, id)
    \/ \E c \in FreeSlots, rec \in NextRecords, choice \in {"Skip", "Overwrite"},
             entered \in {"none", "q"} :
          ImportCall(c, rec, file.passwordsIncluded, choice, entered)
    \/ \E c \in Calls : ImportAdd(c)
    \/ \E c \in Calls : StoreCredentialsDone(c)
    \/ \E c \in Calls : DeleteCredentialsDone(c)
    \/ \E c \in Calls : SaveConnectionsDone(c)

RoundTripSpec == RoundTripInit /\ [][RoundTripNext]_vars

\* the same lifecycle commands, each awaited before the next one is issued
SeqInit ==
    /\ overlap = FALSE
    /\ ioFaults = 0
    /\ workspaceState = SavedConnections
    /\ secrets \in {[a |-> "s", b |-> "{}"], [a |-> "absent", b |-> "corrupt"]}
    /\ InitCommon

RegNext ==
    \/ \E c \in FreeSlots, id \in {i \in Ids : Fresh(i)}, type \in Types, name \in Names,
             full \in BOOLEAN :
          AddConnectionCall(c, id, IF full THEN ConfigOf(type, name)
                                           ELSE Incomplete(ConfigOf(type, name)),
                            IF type = "sqlite" THEN "{}" ELSE "s")
    \/ \E c \in FreeSlots, id \in Ids, name \in Names, t \in Types \cup {"same", "incomplete"},
             creds \in {"undefined", "q"} :
          UpdateConnectionCall(c, id, IF t = "same" THEN editConfig(connections[id], name)
                                      ELSE IF t = "incomplete"
                                           THEN Incomplete(editConfig(connections[id], name))
                                      ELSE ConfigOf(t, name), creds)
    \/ \E c \in Calls : StoreCredentialsDone(c)
    \/ \E c \in FreeSlots, rec \in ImportRecords, a \in ImportAnswers :
          ImportCall(c, rec, a.included, a.choice, a.entered)
    \/ \E c \in Calls : ImportAdd(c)
    \/ \E c \in FreeSlots, id \in Ids : DeleteCall(c, id)
    \/ \E c \in Calls : DeleteCredentialsDone(c)
    \/ \E c \in Calls : SaveConnectionsDone(c)

SeqSpec == SeqInit /\ [][Next]_vars

\* the group and favorite commands on the loaded registry
GroupNext ==
    \/ CreateGroup
    \/ \E groupId \in GroupIds : DeleteGroup(groupId)
    \/ \E connectionId \in Ids, groupId \in GroupIds : AddConnectionToGroup(connectionId, groupId)
    \/ \E connectionId \in Ids : RemoveConnectionFromGroup(connectionId)
    \/ \E connectionId \in Ids : ToggleFavorite(connectionId)

GroupSpec == SeqInit /\ [][GroupNext]_vars

\* the group commands together with deleteConnection on connections that are
\* not connected
MembershipNext ==
    \/ GroupNext
    \/ \E c \in FreeSlots, id \in Ids : DeleteCall(c, id)
    \/ \E c \in Calls : DeleteCredentialsDone(c)
    \/ \E c \in Calls : SaveConnectionsDone(c)

MembershipSpec == SeqInit /\ [][MembershipNext]_vars

\* the lifecycle commands and query execution, one command after the other,
\* on two connections of one kind or of two kinds
ExecInit ==
    /\ overlap = FALSE
    /\ ioFaults = 0
    /\ workspaceState \in {SavedConnections,
                           [SavedConnections EXCEPT !["b"] = ConfigOf("postgresql", "n2")]}
    /\ secrets \in {[a |-> "s", b |-> "{}"], [a |-> "absent", b |-> "s"]}
    /\ InitCommon

ExecNext ==
    \/ Next
    \/ \E c \in FreeSlots, id \in Ids : ExecuteQueryCall(c, id)
    \/ \E c \in Calls : ExecuteGotProvider(c)
    \/ \E c \in Calls : QueryDone(c)

ExecSpec == ExecInit /\ [][ExecNext]_vars

\* the kinds whose provider connect settles whatever the backend does:
\* SQLiteProvider opens a local file; PostgreSQLProvider awaits
\* client.connect() of a pg Client built without connectionTimeoutMillis,
\* which waits for the server's answer with no timer
BoundedConnect(t) == t = "sqlite"

\* the steps of a connect call that do not wait for the backend are taken:
\* the provider module import and the secret store settle, and a provider
\* connect settles where the wait is bounded
ConnectFairness ==
    \A c \in Calls :
        /\ WF_vars(ImportDone(c))
        /\ WF_vars(ConnectGotProvider(c))
        /\ WF_vars(GetCredentialsDone(c))
        /\ WF_vars(BoundedConnect(call[c].type) /\ ProviderConnectDone(c))

LiveSpec == SeqInit /\ [][Next]_vars /\ ConnectFairness

\* the lifecycle commands together with connection tests on the providers
\* they have loaded
TestNext ==
    \/ Next
    \/ \E c \in FreeSlots, id \in Ids : TestConnectionCall(c, id)
    \/ \E c \in Calls : TestConnectionDone(c)

TestSpec == SeqInit /\ [][TestNext]_vars

\* deactivate(): globalConnectionManager.dispose() is called, and
\* ConnectionManager defines no dispose: the call expression throws a
\* TypeError before any provider or tunnel is reached
Deactivate ==
    /\ lastDone' = [op |-> "deactivate", id |-> "none", outcome |-> "TypeError",
                    invoked |-> FALSE]
    /\ UNCHANGED <<regVars, provVars, call, overlap, sideVars, otherVars>>

TeardownNext ==
    \/ Next
    \/ Deactivate

TeardownSpec == SeqInit /\ [][TeardownNext]_vars

\* script runs of the explorer; the registry is not touched
ScriptNext ==
    \/ \E kind \in {"sql", "cypher"}, ctx \in {"mysql", "postgresql", "none"} :
          RunScriptCommand(kind, ctx)
    \/ \E script \in Scripts : ExecuteScript(script)
    \/ CloseScript
    \/ \E ok \in BOOLEAN : ScriptGotProvider(ok)
    \/ PreUseDone
    \/ \E ok \in BOOLEAN, tells \in BOOLEAN : StatementDone(ok, tells)

ScriptInit ==
    /\ overlap = FALSE
    /\ ioFaults = 0
    /\ workspaceState = SavedConnections
    /\ secrets = [a |-> "s", b |-> "{}"]
    /\ InitCommon

ScriptSpec == ScriptInit /\ [][ScriptNext]_vars

\* calls of parseMongoArguments, one per behaviour
ParseInputs == IF parse.done THEN {} ELSE ArgTexts

ParseNext == \E argsStr \in ParseInputs : ParseMongoArguments(argsStr)

ParseSpec == ScriptInit /\ [][ParseNext]_vars

\* validateConnectionConfig applied to one config
ValidationChoices == IF validated.done THEN {} ELSE ValidationInputs

ValidateNext == \E config \in ValidationChoices : ValidateConnectionConfig(config)

ValidateSpec == ScriptInit /\ [][ValidateNext]_vars

\* runs of runSQLScript on texts given character by character
SplitNext ==
    \/ \E ctx \in {"postgresql", "none"} : RunScriptCommand("sql", ctx)
    \/ \E text \in Texts : ExecuteText(text)
    \/ CloseScript
    \/ \E ok \in BOOLEAN : ScriptGotProvider(ok)
    \/ \E ok \in BOOLEAN, tells \in BOOLEAN : StatementDone(ok, tells)

SplitSpec == ScriptInit /\ [][SplitNext]_vars

\* the registry as the explorer's add, edit, import and delete commands
\* drive it, one command after the other
RegInit ==
    /\ overlap = FALSE
    /\ ioFaults = 0
    /\ workspaceState = [SavedConnections EXCEPT !["b"] = NoConfig]
    /\ secrets = [a |-> "s", b |-> "absent"]
    /\ InitCommon

RegSpec == RegInit /\ [][RegNext]_vars

\* the lifecycle commands together with addConnection, also on an id that is
\* registered already, and updateConnection, one command after the other
ManageNext ==
    \/ Next
    \/ \E c \in FreeSlots, id \in Ids, type \in Types :
          AddConnectionCall(c, id, ConfigOf(type, "n1"), IF type = "sqlite" THEN "{}" ELSE "s")
    \/ \E c \in FreeSlots, id \in Ids :
          UpdateConnectionCall(c, id, editConfig(connections[id], "n2"), "undefined")
    \/ \E c \in Calls : StoreCredentialsDone(c)

ManageSpec == RegInit /\ [][ManageNext]_vars

\* the query history commands: the items shown are the stored entries, and
\* one item may be left over from before the last change
HistoryItems == {history[n] : n \in DOMAIN history} \cup ({nextEntry} \ {0})

HistoryNext ==
    \/ AddToHistory
    \/ ClearHistory
    \/ \E id \in HistoryItems : DeleteQuery(id)

HistorySpec == RegInit /\ [][HistoryNext]_vars

\* the tunnel manager on its own, createTunnel / closeTunnel calls overlapping
TunnelNext ==
    \/ \E c \in FreeTSlots, id \in Ids, creds \in {"password", "none"} :
          CreateTunnelCall(c, id, creds)
    \/ \E c \in Calls : ListenDone(c)
    \/ \E c \in Calls : ListenError(c)
    \/ \E c \in Calls : SshReady(c)
    \/ \E k \in 1 .. MaxTunnels : SshError(k)
    \/ \E k \in 1 .. MaxTunnels : SshClose(k)
    \/ \E c \in FreeTSlots, id \in Ids : CloseTunnelCall(c, id)
    \/ \E c \in Calls : ServerCloseDone(c)
    \/ \E c \in FreeTSlots : CloseAllTunnelsCall(c)
    \/ \E c \in Calls, k \in 1 .. MaxTunnels : CloseAllCallback(c, k)

\* the tunnel manager does not read the registry: one registry state is enough
TunnelInit ==
    /\ overlap = TRUE
    /\ ioFaults = MaxFaults
    /\ workspaceState = SavedConnections
    /\ secrets = [a |-> "s", b |-> "{}"]
    /\ InitCommon

TunnelSpec == TunnelInit /\ [][TunnelNext]_vars

\* the tunnels of one connection with local connections coming in, the
\* createTunnel / closeTunnel calls awaited one by one
ForwardInit ==
    /\ overlap = FALSE
    /\ ioFaults = MaxFaults
    /\ workspaceState = SavedConnections
    /\ secrets = [a |-> "s", b |-> "{}"]
    /\ InitCommon

ForwardNext ==
    \/ \E c \in FreeTSlots : CreateTunnelCall(c, "a", "password")
    \/ \E c \in Calls : ListenDone(c)
    \/ \E c \in Calls : ListenError(c)
    \/ \E c \in Calls : SshReady(c)
    \/ \E k \in 1 .. MaxTunnels : SshError(k)
    \/ \E k \in 1 .. MaxTunnels : SshClose(k)
    \/ \E c \in FreeTSlots : CloseTunnelCall(c, "a")
    \/ \E c \in Calls : ServerCloseDone(c)
    \/ \E k \in 1 .. MaxTunnels : AcceptConnection(k)
    \/ \E s \in 1 .. MaxSockets : ForwardOutDone(s)
    \/ \E s \in 1 .. MaxSockets : SocketEnd(s)

ForwardSpec == ForwardInit /\ [][ForwardNext]_vars

\* the steps of createTunnel and closeTunnel that wait for nothing outside the
\* extension host are taken: the listen callback, the forwardOut callback
\* and the close callback of a server whose connections have all ended. When
\* the peer of an accepted connection ends it is up to the peer
CloseFairness ==
    /\ \A c \in Calls : WF_vars(ListenDone(c)) /\ WF_vars(ServerCloseDone(c))
    /\ \A s \in 1 .. MaxSockets : WF_vars(ForwardOutDone(s))

CloseSpec == ForwardInit /\ [][ForwardNext]_vars /\ CloseFairness

----------------------------------------------------------------------------
(* Properties                                                              *)

\* the provider session maps hold no handle for id
NoSession(id) == \A t \in Types, n \in Insts : provConnections[t][n][id] = 0

\* the connect or disconnect call that returned last, with nothing started since
Returned(op, id, outcome) ==
    /\ InFlight = {}
    /\ lastDone.op = op
    /\ lastDone.id = id
    /\ lastDone.outcome = outcome

\* C1: after connect(id) failed because the provider's connect rejected, the
\* status of id is connected=false with the error kept, and no provider
\* session map holds a handle for id, also when id was connected before
C1_FailedConnectLeavesNoSession ==
    \A id \in Ids :
        Returned("connect", id, "ConnectError") =>
            /\ connectionStatus[id] = StatusFailed("ConnectError")
            /\ NoSession(id)

\* the part of C2 that holds in every state of a deleteConnection(id) that
\* found id connected, once the disconnect is behind it
DeleteInOrder(c) ==
    LET id == call[c].id IN
    (/\ call[c].op = "delete"
     /\ call[c].wasConn
     /\ call[c].pc \in {"deleteRemove", "deleteCredentials", "saveConnections"}) =>
        /\ NoSession(id)
        /\ workspaceState[id] = NoConfig => secrets[id] = "absent"
        /\ ~(isConnected(id) /\ secrets[id] = "absent")

\* C2: deleteConnection(id) on a connected id removes the provider session,
\* then the secret, then the config: once the delete is past its disconnect
\* no session is left, the persisted config is never gone before the secret,
\* id is never connected with its secret missing, and the delete does not end
\* with the session, the secret or the config still there
C2_DeleteRemovesInOrder ==
    [][\A c \in Calls :
          /\ DeleteInOrder(c)'
          /\ (call[c].op = "delete" /\ call[c].wasConn /\ call'[c].pc = "idle") =>
                /\ \A t \in Types, n \in Insts : provConnections'[t][n][call[c].id] = 0
                /\ secrets'[call[c].id] = "absent"
                /\ connections'[call[c].id] = NoConfig
                /\ workspaceState'[call[c].id] = NoConfig]_vars

\* C3: a disconnect(id) that directly follows a disconnect(id) does not
\* invoke the provider's disconnect, does not throw, and ends with id
\* connected=false and no error
C3_DisconnectIdempotent ==
    [][\A c \in Calls :
          (/\ call[c].op = "disconnect"
           /\ lastDone.op = "disconnect"
           /\ lastDone.id = call[c].id) =>
              /\ ~call'[c].invoked
              /\ call'[c].pc = "idle" =>
                    /\ lastDone'.outcome = "ok"
                    /\ connectionStatus'[call[c].id] = StatusDisconnected]_vars

\* C4: no connect(id) is at its provider connect while another connect(id)
\* is in flight
C4_ConnectSerialized ==
    \A c, d \in Calls :
        (/\ c # d
         /\ call[c].op = "connect"
         /\ call[c].pc = "providerConnect"
         /\ call[d].op = "connect"
         /\ call[d].id = call[c].id) => Idle(d)

\* C5: at most one listening local socket per connection id
C5_OneListenerPerId ==
    \A id \in Ids :
        Cardinality({k \in 1 .. MaxTunnels : tunnels[k].id = id /\ Listening(k)}) <= 1

\* C6: no config in the registry and no config in the persisted store has a
\* password or privateKey field
C6_NoSecretInConfigs ==
    \A id \in Ids :
        /\ connections[id].fields \cap SecretFields = {}
        /\ workspaceState[id].fields \cap SecretFields = {}

\* an import record that carried a password is registered and persisted: the
\* password is in the secret store, the config is in both stores
C6_Witness ==
    \E id \in Ids :
        /\ Registered(id)
        /\ secrets[id] = "p"
        /\ workspaceState[id] = connections[id]
        /\ InFlight = {}

\* C7 as stated: a connect(id) on a registered id whose secret is absent or
\* unparseable fails with 'No credentials found', without the provider's
\* connect being invoked, and id has connected=false with that error
C7_NoCredentialsAlways ==
    \A id \in Ids :
        (/\ InFlight = {}
         /\ lastDone.op = "connect"
         /\ lastDone.id = id
         /\ Registered(id)
         /\ secrets[id] \in {"absent", "corrupt"}) =>
            /\ lastDone.outcome = "NoCredentials"
            /\ ~lastDone.invoked
            /\ connectionStatus[id] = StatusFailed("NoCredentials")

\* C7 amended: the same, for a connect(id) whose provider could be loaded
C7_NoCredentialsWithProvider ==
    \A id \in Ids :
        (/\ InFlight = {}
         /\ lastDone.op = "connect"
         /\ lastDone.id = id
         /\ Registered(id)
         /\ secrets[id] \in {"absent", "corrupt"}
         /\ lastDone.outcome # "ProviderUnavailable") =>
            /\ lastDone.outcome = "NoCredentials"
            /\ ~lastDone.invoked
            /\ connectionStatus[id] = StatusFailed("NoCredentials")

\* a connect on an id with an unparseable secret has failed with
\* 'No credentials found'
C7_Witness ==
    \E id \in Ids :
        /\ Returned("connect", id, "NoCredentials")
        /\ secrets[id] = "corrupt"
        /\ connectionStatus[id] = StatusFailed("NoCredentials")

\* C8: after a disconnect(id) in which the provider's disconnect threw, id is
\* marked disconnected
C8_DisconnectBestEffort ==
    \A id \in Ids :
        Returned("disconnect", id, "DisconnectError") => ~isConnected(id)

\* C9: at most one provider instance is ever created per protocol kind
C9_OneProviderPerKind == \A t \in Types : created[t] <= 1

\* C10: the type of a registered connection id never changes
C10_TypeImmutable ==
    [][\A id \in Ids :
          (Registered(id) /\ Registered(id)') =>
              connections'[id].type = connections[id].type]_vars

\* C11: an addConnection or updateConnection call that fails validation
\* leaves the connection map, the secret store and the persisted
\* configuration unchanged
C11_ValidationBeforeWrites ==
    [][(/\ call' = call
        /\ edits' # edits
        /\ lastDone'.op \in {"add", "update"}
        /\ lastDone'.outcome = "ValidationError") =>
           /\ connections' = connections
           /\ secrets' = secrets
           /\ workspaceState' = workspaceState]_vars

\* an add or update of an incomplete config was rejected
C11_Witness ==
    /\ InFlight = {}
    /\ lastDone.op \in {"add", "update"}
    /\ lastDone.outcome = "ValidationError"
    /\ edits > 0

\* C12: a provider's testConnection, whatever it returns, leaves the
\* provider's session map as it was
C12_TestLeavesSessions ==
    [][\A c \in Calls : call[c].op = "test" => provConnections' = provConnections]_vars

\* a test has returned true on an id that has a live session in the provider
C12_Witness ==
    /\ InFlight = {}
    /\ lastDone.op = "test"
    /\ lastDone.outcome = "true"
    /\ provConnections[connections[lastDone.id].type][providers[connections[lastDone.id].type]][lastDone.id] # 0

\* C13: when the forwarded channel cannot be opened for one accepted local
\* connection, that socket is closed and nothing else changes: the listener,
\* the SSH session, the active-tunnel map and the other sockets stay as they are
C13_ForwardFailureIsLocal ==
    [][\A s \in 1 .. MaxSockets :
          (sockets[s].st = "opening" /\ sockets'[s].st = "refused") =>
              /\ tunnels' = tunnels
              /\ activeTunnels' = activeTunnels
              /\ \A r \in 1 .. MaxSockets : r # s => sockets'[r] = sockets[r]]_vars

\* in an active tunnel one connection was refused and a later one is forwarded
C13_Witness ==
    \E s, r \in 1 .. MaxSockets :
        /\ s < r
        /\ sockets[s].st = "refused"
        /\ sockets[r].st = "piped"
        /\ sockets[r].k = sockets[s].k
        /\ Listening(sockets[s].k)
        /\ tunnels[sockets[s].k].client = "ready"
        /\ activeTunnels[tunnels[sockets[s].k].id] = sockets[s].k


\* C14: closeTunnel(id) stops the listening socket first: from the call on the
\* server of the tunnel no longer listens while the SSH session is left as it
\* was; the session is ended in the completing step, after which the server
\* is closed, the session is not up and id is not in the tunnel map. With no
\* tunnel for id the call changes no tunnel, no map entry and no socket
C14_CloseTunnelOrder ==
    [][/\ \A c \in Calls :
            (tcall[c].pc = "idle" /\ tcall'[c].pc = "serverClose") =>
                /\ tunnels'[tcall'[c].k].server # "listening"
                /\ tunnels'[tcall'[c].k].client = tunnels[tcall'[c].k].client
       /\ \A c \in Calls :
            (tcall[c].pc = "serverClose" /\ tcall'[c].pc = "idle") =>
                /\ tunnels[tcall[c].k].server # "listening"
                /\ tunnels'[tcall[c].k].server = "closed"
                /\ tunnels'[tcall[c].k].client # "ready"
                /\ activeTunnels'[tcall[c].id] = 0
       /\ (tlast' # tlast /\ tlast'.outcome = "noop") =>
                /\ tunnels' = tunnels
                /\ activeTunnels' = activeTunnels
                /\ sockets' = sockets]_vars

\* a closeTunnel has completed on a tunnel whose session was up
C14_Witness ==
    /\ tlast.op = "close"
    /\ tlast.outcome = "ok"
    /\ \E k \in 1 .. MaxTunnels :
         /\ tunnels[k].id = tlast.id
         /\ tunnels[k].server = "closed"
         /\ tunnels[k].client = "ended"

\* C15: when closeAllTunnels() completes, every tunnel it found in the map
\* has been closed and the active-tunnel map is empty
C15_CloseAllLeavesMapEmpty ==
    [][\A c \in Calls :
          (tcall[c].pc = "closeAll" /\ tcall'[c].pc = "idle") =>
              \A id \in Ids : activeTunnels'[id] = 0]_vars

\* C16: when a createTunnel(id, ...) call fails, the listening socket the call
\* opened is not left listening and the tunnel map has no entry for id
C16_FailedCreateLeavesNothing ==
    [][\A c \in Calls :
          (/\ tcall[c].op = "create"
           /\ tcall'[c].pc = "idle"
           /\ tlast'.outcome = "error") =>
              /\ tunnels'[tcall[c].k].server # "listening"
              /\ activeTunnels'[tcall[c].id] = 0]_vars

\* C17: once deactivate has run, no provider session map holds a handle and
\* the active-tunnel map is empty
C17_TeardownReleasesAll ==
    [][(lastDone' # lastDone /\ lastDone'.op = "deactivate") =>
          /\ \A id \in Ids : NoSession(id)'
          /\ \A id \in Ids : activeTunnels'[id] = 0]_vars

\* C18: every ConnectionManager.connect(id) call eventually completes
C18_ConnectCompletes ==
    \A c \in Calls : (call[c].op = "connect") ~> (call[c].pc = "idle")

\* what a run sends before its first statement
SentBefore(r) ==
    IF r.kind = "sql" /\ r.ctx = "mysql" THEN <<"USE config.database">> ELSE <<>>

\* C19: a finished run of a multi-statement SQL script that begins with a USE
\* statement has sent the USE statement first and the other statements after
\* it, one at a time in the order of the script, and the document it shows
\* holds the result of the final statement only
C19_ScriptSurfacesFinalResult ==
    (/\ run.pc = "done"
     /\ run.shown.done
     /\ run.kind = "sql"
     /\ Len(run.stmts) >= 2
     /\ run.stmts[1] = "USE") =>
        /\ run.sent = SentBefore(run) \o run.stmts
        /\ run.shown.doc = <<Result(run.stmts[Len(run.stmts)])>>

\* C20: when statement k of a multi-statement script fails, the run has sent
\* no statement after k and the error it shows tells statement k
C20_FailureAbortsAndNamesStatement ==
    (/\ run.pc = "done"
     /\ run.error.shown
     /\ run.i > 0
     /\ Len(run.stmts) >= 2) =>
        /\ run.sent = SentBefore(run) \o SubSeq(run.stmts, 1, run.i)
        /\ run.error.stmt = run.i

\* the statements of a text under a splitter that tracks quotes and
\* comments: a semicolon ends a statement only outside a quoted string and
\* outside a comment, and a statement counts when it holds a character that
\* is neither white space nor part of a comment. mode is "code", "string"
\* or "comment"; some tells whether the statement being read has content
RECURSIVE TopLevelCount(_, _, _)
TopLevelCount(text, mode, some) ==
    IF text = <<>> THEN (IF some THEN 1 ELSE 0)
    ELSE LET ch == Head(text)
             rest == Tail(text)
         IN  IF mode = "string"
             THEN TopLevelCount(rest, IF ch = "'" THEN "code" ELSE "string", TRUE)
             ELSE IF mode = "comment"
             THEN TopLevelCount(rest, IF ch = "n" THEN "code" ELSE "comment", some)
             ELSE IF ch = ";" THEN (IF some THEN 1 ELSE 0) + TopLevelCount(rest, "code", FALSE)
             ELSE IF ch = "'" THEN TopLevelCount(rest, "string", TRUE)
             ELSE IF ch = "-" THEN TopLevelCount(rest, "comment", some)
             ELSE IF ch = "n" THEN TopLevelCount(rest, "code", some)
             ELSE TopLevelCount(rest, "code", TRUE)

\* C21: a run of runSQLScript in which every statement succeeded has sent as
\* many statements as its text has top-level statements: no semicolon inside
\* a quoted string or a comment started a statement
C21_SplitOutsideStringsAndComments ==
    (run.pc = "done" /\ run.shown.done /\ run.text # <<>>) =>
        Len(run.sent) = TopLevelCount(run.text, "code", FALSE)

\* the positions of the commas of a text that are at bracket depth 0 and
\* outside a quoted string. Inside a string a quote is escaped when an odd
\* number of backslashes stands before it (a doubled backslash is a
\* backslash, not an escape); outside a string a quote right after a
\* backslash opens nothing. bs counts the backslashes that end the part of
\* the string read so far
RECURSIVE TopLevelCommas(_, _, _, _, _)
TopLevelCommas(text, i, depth, quote, bs) ==
    IF i > Len(text) THEN {}
    ELSE LET ch == text[i]
             escaped == IF quote # "none" THEN bs % 2 = 1 ELSE bs > 0
             nbs == IF ch = "b" THEN bs + 1 ELSE 0
         IN  IF quote # "none"
             THEN TopLevelCommas(text, i + 1, depth,
                                 IF ch = quote /\ ~escaped THEN "none" ELSE quote, nbs)
             ELSE IF ch \in {"q", "'"} /\ ~escaped
             THEN TopLevelCommas(text, i + 1, depth, ch, 0)
             ELSE IF ch = "{" THEN TopLevelCommas(text, i + 1, depth + 1, quote, nbs)
             ELSE IF ch = "}" THEN TopLevelCommas(text, i + 1, depth - 1, quote, nbs)
             ELSE (IF ch = "," /\ depth = 0 THEN {i} ELSE {})
                  \cup TopLevelCommas(text, i + 1, depth, quote, nbs)

\* C22: parseMongoArguments splits exactly at the commas that are at bracket
\* depth 0 and outside a quoted string
C22_SplitsAtTopLevelCommas ==
    parse.done => parse.cuts = TopLevelCommas(parse.argsStr, 1, 0, "none", 0)

\* C23: the import of a record that neither carries a password nor is given
\* one at the prompt writes no secret-store entry
C23_ImportWithoutPasswordWritesNoSecret ==
    [][\A c \in Calls :
          (/\ call[c].outer = "import"
           /\ call[c].pc = "storeCredentials"
           /\ call[c].creds = "empty") => secrets' = secrets]_vars

\* the file was written with passwords and every record of it has been
\* imported into the emptied registry, no store request having been rejected
RoundTripDone ==
    /\ file.written /\ file.passwordsIncluded
    /\ edits = Len(file.connections)
    /\ InFlight = {}
    /\ ioFaults = 0

\* C24: after an export with passwords and the import of the file into an
\* empty registry, every exported connection is registered under its id with
\* the name, type, host, port, database and username it had, and its
\* secret-store entry holds the password it had
C24_ExportImportRoundTrip ==
    RoundTripDone =>
        \A n \in DOMAIN file.connections :
            LET id == file.connections[n].id
                was == file.from.connections[id]
            IN  /\ connections[id].name = was.name
                /\ connections[id].type = was.type
                /\ connections[id].fields \cap ConfigKeys = was.fields \cap ConfigKeys
                /\ getPassword(file.from.secrets[id]) # "undefined" =>
                       getPassword(secrets[id]) = getPassword(file.from.secrets[id])

\* call c takes a step of a connect, disconnect or execute on id
ActsOn(c, id) ==
    \/ /\ call[c] # call'[c]
       /\ \/ call[c].id = id /\ call[c].op \in {"connect", "disconnect", "execute"}
          \/ Idle(c) /\ call'[c].id = id /\ call'[c].op \in {"connect", "disconnect", "execute"}
    \/ /\ Idle(c) /\ call[c] = call'[c]
       /\ lastDone' # lastDone /\ lastDone'.id = id
       /\ lastDone'.op \in {"connect", "disconnect", "execute"}

\* C25: no step of a connect, a disconnect or an execute on id A, and so no
\* failed one, changes the status, the config, the credentials or the
\* provider session of another id B
C25_FailureLeavesOthersUnchanged ==
    [][\A c \in Calls, A \in Ids : ActsOn(c, A) =>
          \A B \in Ids \ {A} :
              /\ connectionStatus'[B] = connectionStatus[B]
              /\ connections'[B] = connections[B]
              /\ workspaceState'[B] = workspaceState[B]
              /\ secrets'[B] = secrets[B]
              /\ \A t \in Types, n \in Insts :
                    provConnections'[t][n][B] = provConnections[t][n][B]]_vars

\* a connect has failed on one id while another id is connected and has its
\* session in the provider
C25_Witness ==
    /\ InFlight = {}
    /\ lastDone.op = "connect"
    /\ lastDone.outcome = "ConnectError"
    /\ \E B \in Ids \ {lastDone.id} :
          /\ connectionStatus[B] = StatusConnected
          /\ \E t \in Types, n \in Insts : provConnections[t][n][B] # 0

C27_ProviderDisconnectNoOp ==
    [][\A c \in Calls : (call[c].pc = "providerDisconnect" /\ call'[c] # call[c]) =>
          /\ call[c].hnd = 0 =>
                /\ call'[c].pc = "setDisconnected"
                /\ provConnections' = provConnections
          /\ (call[c].hnd # 0 /\ call'[c].pc = "setDisconnected") =>
                provConnections'[call[c].type][call[c].inst][call[c].id] = 0]_vars

\* a provider's disconnect was invoked on an id it holds no session of, and
\* has resolved
C27_Witness ==
    \E c \in Calls :
        /\ call[c].pc = "setDisconnected"
        /\ call[c].invoked
        /\ call[c].hnd = 0
        /\ provConnections[call[c].type][call[c].inst][call[c].id] = 0

\* the validated config has its id, name and type
Identified == {"id", "name", "type"} \subseteq validated.config.fields

\* C28: validation accepts a Docker config with no host, accepts a config of
\* a networked kind that has a host and no port, rejects a config of a
\* networked kind with no host, and rejects a SQLite config with no database
C28_ValidationRules ==
    validated.done =>
        LET cfg == validated.config IN
        /\ (Identified /\ cfg.type = "docker" /\ "host" \notin cfg.fields) => validated.passed
        /\ (Identified /\ cfg.type = "postgresql" /\ "host" \in cfg.fields
               /\ "port" \notin cfg.fields) => validated.passed
        /\ (cfg.type = "postgresql" /\ "host" \notin cfg.fields) => ~validated.passed
        /\ (cfg.type = "sqlite" /\ "database" \notin cfg.fields) => ~validated.passed

\* C28 amended: the same, except that a config of a networked kind that has a
\* host and no port is rejected
C28_ValidationRequiresPort ==
    validated.done =>
        LET cfg == validated.config IN
        /\ (Identified /\ cfg.type = "docker" /\ "host" \notin cfg.fields) => validated.passed
        /\ (cfg.type = "postgresql" /\ "host" \in cfg.fields
               /\ "port" \notin cfg.fields) => ~validated.passed
        /\ (cfg.type = "postgresql" /\ "host" \notin cfg.fields) => ~validated.passed
        /\ (cfg.type = "sqlite" /\ "database" \notin cfg.fields) => ~validated.passed

\* a PostgreSQL config with id, name, type and host and without a port was
\* validated and rejected
C28_Witness ==
    /\ validated.done
    /\ Identified
    /\ validated.config.type = "postgresql"
    /\ "host" \in validated.config.fields
    /\ "port" \notin validated.config.fields
    /\ ~validated.passed

\* C29: an entry of the secret store that is not valid JSON reads as null
\* and as 'no credentials stored', and the connect(id) that follows fails with
\* 'No credentials found'
C29_CorruptEntryIsAbsent ==
    \A id \in Ids :
        (/\ InFlight = {}
         /\ lastDone.op = "connect"
         /\ lastDone.id = id
         /\ Registered(id)
         /\ secrets[id] = "corrupt") =>
            /\ getCredentials(secrets[id]) = "null"
            /\ ~hasCredentials(secrets[id])
            /\ lastDone.outcome = "NoCredentials"

\* C29 amended: the same, for a connect(id) whose provider could be loaded
C29_CorruptEntryIsAbsentWithProvider ==
    \A id \in Ids :
        (/\ InFlight = {}
         /\ lastDone.op = "connect"
         /\ lastDone.id = id
         /\ Registered(id)
         /\ secrets[id] = "corrupt"
         /\ lastDone.outcome # "ProviderUnavailable") =>
            /\ getCredentials(secrets[id]) = "null"
            /\ ~hasCredentials(secrets[id])
            /\ lastDone.outcome = "NoCredentials"

\* a connect on an id whose entry is not valid JSON has found the provider
\* and has failed with 'No credentials found', the provider never invoked
C29_Witness ==
    \E id \in Ids :
        /\ InFlight = {}
        /\ lastDone = [op |-> "connect", id |-> id, outcome |-> "NoCredentials",
                       invoked |-> FALSE]
        /\ secrets[id] = "corrupt"
        /\ ~hasCredentials(secrets[id])
        /\ providers[connections[id].type] # 0

\* C30: deleteGroup(g) removes g, clears the group id of every connection
\* whose metadata named g, and leaves every other group id, every favorite
\* flag, the other groups, the registered configs, the statuses and the
\* credentials as they were
C30_DeleteGroupClearsAssignment ==
    [][\A g \in GroupIds : (groups[g].st = "live" /\ groups'[g].st # "live") =>
          /\ \A i \in Ids :
                /\ metadata'[i].entry = metadata[i].entry
                /\ metadata'[i].isFavorite = metadata[i].isFavorite
                /\ metadata'[i].groupId = IF metadata[i].groupId = g THEN 0
                                          ELSE metadata[i].groupId
          /\ \A h \in GroupIds \ {g} : groups'[h] = groups[h]
          /\ UNCHANGED <<connections, workspaceState, connectionStatus, secrets>>]_vars

\* a group that had members was deleted: no metadata names it any more,
\* while a favorite that was a member is still a favorite
C30_Witness ==
    \E g \in GroupIds :
        /\ groups[g].st = "deleted"
        /\ groups[g].connectionIds # <<>>
        /\ \A i \in Ids : metadata[i].groupId # g
        /\ \E i \in Ids : /\ includes(groups[g].connectionIds, i)
                          /\ metadata[i].isFavorite /\ metadata[i].groupId = 0

\* C31: the stored history holds at most 100 entries, newest first, and the
\* entry dropped when a 101st is added is the oldest one: the others stay,
\* in their order, behind the new entry
C31_HistoryBounded ==
    [][/\ Len(history') <= 100
       /\ \A n \in 2 .. Len(history') : history'[n - 1] > history'[n]
       /\ (nextEntry' = nextEntry + 1) =>
             /\ history'[1] = nextEntry'
             /\ Len(history') = IF Len(history) = 100 THEN 100 ELSE Len(history) + 1
             /\ \A n \in 2 .. Len(history') : history'[n] = history[n - 1]]_vars

\* a 101st entry was added to a full history: the first entry ever made is
\* gone, the second one is the last of the list
C31_Witness ==
    /\ nextEntry = 101
    /\ removals = 0
    /\ Len(history) = 100
    /\ history[1] = 101
    /\ history[100] = 2

\* C32: whenever no registry operation is in flight, an id that isConnected
\* reports as connected is registered, and the provider cached for its kind
\* holds a session handle for it
C32_ConnectedHasSession ==
    InFlight = {} =>
        \A id \in Ids : isConnected(id) =>
            /\ Registered(id)
            /\ providers[connections[id].type] # 0
            /\ provConnections[connections[id].type][providers[connections[id].type]][id] # 0

\* C33: once no call is in flight, an id that is not registered has no
\* status entry and no session in any provider, also when a delete of the
\* id ran while a connect of it was awaiting the provider
C33_NoEntryForUnregistered ==
    InFlight = {} =>
        \A id \in Ids : ~Registered(id) =>
            /\ connectionStatus[id] = NoStatus
            /\ NoSession(id)

\* C34: no session handle is orphaned. A native session is stored in the
\* provider's session map under its id in the step that opens it, so every
\* session opened and not closed is the stored one as long as a stored handle
\* leaves its place in the map only in the step in which the provider's
\* disconnect closes that very session
C34_NoOrphanedSession ==
    [][\A t \in Types, n \in Insts, id \in Ids :
          (/\ provConnections[t][n][id] # 0
           /\ provConnections'[t][n][id] # provConnections[t][n][id])
              => \E c \in Calls :
                    /\ call[c].pc = "providerDisconnect"
                    /\ call'[c].pc = "setDisconnected"
                    /\ call[c].type = t /\ call[c].inst = n /\ call[c].id = id
                    /\ call[c].hnd = provConnections[t][n][id]]_vars

\* C35: the entry createTunnel stored for id stays in the map until the close
\* callback of a closeTunnel(id) (or of closeAllTunnels) removes it or the SSH
\* session of the stored tunnel itself closes; the 'close' of another client
\* made earlier for the same id does not remove it
C35_EntryStaysUntilClosed ==
    [][\A id \in Ids :
          (hasTunnel(id) /\ activeTunnels'[id] # activeTunnels[id])
              => \/ \E c \in Calls : /\ tcall[c].pc = "serverClose"
                                     /\ tcall[c].id = id
                                     /\ tcall'[c] = IdleTCall
                 \/ \E c \in Calls : /\ tcall[c].pc = "closeAll"
                                     /\ activeTunnels[id] \in tcall[c].pend
                                     /\ tcall'[c] # tcall[c]
                 \/ /\ tunnels[activeTunnels[id]].client # "closed"
                    /\ tunnels'[activeTunnels[id]].client = "closed"]_vars

\* C36: every closeTunnel(id) call eventually completes, also while local
\* connections the tunnel's server accepted are still open
C36_CloseTunnelCompletes ==
    \A c \in Calls : (tcall[c].op = "close") ~> (tcall[c].pc = "idle")

\* C37: when the SSH session of an established tunnel closes or errors, the
\* tunnel's listener does not stay open without its entry in the map: after
\* the step a server that still listens is the one stored under its id
C37_ListenerRecorded ==
    [][\A k \in 1 .. MaxTunnels :
          (tunnels[k].client = "ready" /\ tunnels'[k].client \in {"failed", "closed"})
              => (Listening(k)' => activeTunnels'[tunnels[k].id] = k)]_vars

\* C38: addConnection is all-or-nothing: after an addConnection of a new id
\* that failed in storeCredentials or in saveConnections the config is not in
\* the connection map
C38_AddAllOrNothing ==
    (/\ InFlight = {}
     /\ lastDone.op = "add"
     /\ lastDone.outcome \in {"SecretStoreError", "SaveError"})
        => ~Registered(lastDone.id)

\* C39: group membership is consistent and many-to-one: no connection id is
\* in the connectionIds of two groups, no connectionIds holds an id twice,
\* the metadata of id names group g exactly if id is in the connectionIds of
\* g, and no metadata names a group that does not exist
C39_MembershipConsistent ==
    /\ \A g \in GroupIds, h \in GroupIds, id \in Ids :
          (/\ g # h
           /\ groups[g].st = "live" /\ includes(groups[g].connectionIds, id)
           /\ groups[h].st = "live") => ~includes(groups[h].connectionIds, id)
    /\ \A g \in GroupIds :
          groups[g].st = "live" =>
             \A m \in DOMAIN groups[g].connectionIds, n \in DOMAIN groups[g].connectionIds :
                m # n => groups[g].connectionIds[m] # groups[g].connectionIds[n]
    /\ \A g \in GroupIds, id \in Ids :
          groups[g].st = "live" =>
             ((metadata[id].entry /\ metadata[id].groupId = g)
                 <=> includes(groups[g].connectionIds, id))
    /\ \A id \in Ids :
          metadata[id].groupId # 0 => groups[metadata[id].groupId].st = "live"

\* a group that had a member was deleted and the member is in another group
\* now, and a connection was deleted while it was a member of a group
C39_Witness ==
    /\ InFlight = {}
    /\ \E g \in GroupIds, h \in GroupIds, id \in Ids :
          /\ groups[g].st = "deleted"
          /\ includes(groups[g].connectionIds, id)
          /\ groups[h].st = "live"
          /\ metadata[id].groupId = h
    /\ \E id \in Ids : ~Registered(id) /\ metadata[id].groupId # 0

\* C40: a record of an import whose name collides with a registered
\* connection either replaces that connection or leaves it in the registry:
\* when the import of the record ends after 'Overwrite' without the record
\* having been added and saved, the connection is still registered; and a
\* command that ends in its first segment, as the import of a record does on
\* 'Skip', changes neither the registry nor the stores
C40_OverwriteReplacesOrKeeps ==
    [][/\ \A c \in Calls :
             (/\ call[c].outer = "import"
              /\ call[c].exists # "none"
              /\ call'[c] = IdleCall
              /\ ~(/\ call[c].pc = "saveConnections"
                   /\ call[c].op = "add"
                   /\ ioFaults' = ioFaults))
                 => connections'[call[c].exists] # NoConfig
       /\ (edits' # edits /\ call' = call)
             => UNCHANGED <<connections, secrets, workspaceState>>]_vars

====
